---- MODULE Spec2Model ----
(***************************************************************************)
(* Control-flow restructuring of the decomp crate: the control flow graph  *)
(* (cfg), the structural analysis that reduces it to primitives (cfa) and  *)
(* the recovery of nested groups from the primitives (cfr).                *)
(***************************************************************************)
EXTENDS Integers, Sequences, FiniteSets, TLC

VARIABLES
    function,   \* the llvm_ir Function handed to ControlFlowGraph::new
    cfg,        \* the ControlFlowGraph: entry, nodes, preds, succs, temps, next_temp
    prims,      \* find_all: the local Vec<CFAPrim>
    prim,       \* find_all: the primitive of the current iteration (an Option)
    pc,         \* position of the caller: new, find_all loop, merge, recovery, end
    bundle,     \* what find_all returned (an Option<CFAPrims>)
    groups,     \* outcome of CFRGroups::new
    created,    \* names returned by create_temporary_node so far, in call order
    calls,      \* number of calls a client has made on the graph or the vector directly
    unique_vec, \* a UniqueVec a client calls the methods of
    vec_before, \* the UniqueVec as it was before the last call
    op,         \* the last call on the UniqueVec: the method and its argument
    ret,        \* what the last call on the UniqueVec returned
    stamp,      \* for each position of the UniqueVec, the number of the call that put
                \* the element there (insert, replace or a write through &mut)
    inserted,   \* for each position of the UniqueVec, the number of the call that
                \* made the position (the insertion its element survives from)
    others_called \* a call has been made on the UniqueVec that is none of insert,
                \* remove, take, replace, retain and clear

\* The variables of the client of UniqueVec, and those of the graph and its reduction.
vec_vars == <<unique_vec, vec_before, op, ret, stamp, inserted, others_called>>
graph_vars == <<function, cfg, prims, prim, pc, bundle, groups, created>>

vars == <<function, cfg, prims, prim, pc, bundle, groups, created, calls,
          unique_vec, vec_before, op, ret, stamp, inserted, others_called>>

\* --------------------------------------------------------------- bounds

\* Every function over the blocks of BlockNames with Ret, Br and CondBr
\* terminators that name at most MaxDests destinations in all is an input, next
\* to the named scenario functions.
MaxDests == 4

\* --------------------------------------------------------------- Option

None == <<>>
Some(x) == <<x>>
IsSome(o) == o # <<>>
Unwrap(o) == o[1]

\* --------------------------------------------------------------- names

\* module_path!() at the crate root is the crate name.
MODULE_NAME == <<"d", "e", "c", "o", "m", "p">>

\* str::to_uppercase on one ASCII letter.
UpperChar(c) ==
    CASE c = "a" -> "A" [] c = "b" -> "B" [] c = "c" -> "C" [] c = "d" -> "D"
      [] c = "e" -> "E" [] c = "f" -> "F" [] c = "g" -> "G" [] c = "h" -> "H"
      [] c = "i" -> "I" [] c = "j" -> "J" [] c = "k" -> "K" [] c = "l" -> "L"
      [] c = "m" -> "M" [] c = "n" -> "N" [] c = "o" -> "O" [] c = "p" -> "P"
      [] c = "q" -> "Q" [] c = "r" -> "R" [] c = "s" -> "S" [] c = "t" -> "T"
      [] c = "u" -> "U" [] c = "v" -> "V" [] c = "w" -> "W" [] c = "x" -> "X"
      [] c = "y" -> "Y" [] c = "z" -> "Z" [] OTHER -> c

RECURSIVE to_uppercase(_)
to_uppercase(chars) ==
    IF chars = <<>> THEN ""
    ELSE UpperChar(Head(chars)) \o to_uppercase(Tail(chars))

\* format!("@{}_TEMPORARY_{}", MODULE_NAME.to_uppercase(), n)
TemporaryName(n) ==
    "@" \o to_uppercase(MODULE_NAME) \o "_TEMPORARY_" \o ToString(n)

\* --------------------------------------------------------------- CFGNode

CFGNode(from_pred, to_succ) == <<from_pred, to_succ>>
from_pred(node) == node[1]
to_succ(node) == node[2]
\* impl Into<CFGNode> for &Name
IntoNode(name) == CFGNode(name, name)

\* --------------------------------------------------------------- UniqueVec

contains(vec, x) == \E i \in 1..Len(vec) : vec[i] = x

\* vec.iter().position(|y| y == x), as an Option
position(vec, x) ==
    IF contains(vec, x)
    THEN Some(CHOOSE i \in 1..Len(vec) :
                  vec[i] = x /\ \A j \in 1..(i - 1) : vec[j] # x)
    ELSE None

\* Vec::remove(index)
RemoveAt(vec, i) == SubSeq(vec, 1, i - 1) \o SubSeq(vec, i + 1, Len(vec))

\* An insert that pushes x whether the vector contains it or not.
insert_Always(vec, x) == Append(vec, x)

\* The vector after UniqueVec::insert(x).
insert(vec, x) == IF contains(vec, x) THEN vec ELSE Append(vec, x)

\* The vector after UniqueVec::remove(&x).
remove(vec, x) ==
    LET index == position(vec, x)
    IN  IF IsSome(index) THEN RemoveAt(vec, Unwrap(index)) ELSE vec

\* What UniqueVec::insert(x) returns.
insert_returns(vec, x) == ~ contains(vec, x)

\* What UniqueVec::remove(&x) returns.
remove_returns(vec, x) == IsSome(position(vec, x))

\* UniqueVec::replace(x): the vector afterwards and the value returned.
replace(vec, x) ==
    LET index == position(vec, x)
    IN  IF IsSome(index)
        THEN [vec |-> [vec EXCEPT ![Unwrap(index)] = x],
              ret |-> Some(vec[Unwrap(index)])]
        ELSE [vec |-> vec, ret |-> None]

\* UniqueVec::take(&x): the vector afterwards and the value returned.
take(vec, x) ==
    LET index == position(vec, x)
    IN  IF IsSome(index)
        THEN [vec |-> RemoveAt(vec, Unwrap(index)), ret |-> Some(vec[Unwrap(index)])]
        ELSE [vec |-> vec, ret |-> None]

\* UniqueVec::retain(f), f the membership in `keep`.
retain(vec, keep) == LET f(e) == e \in keep IN SelectSeq(vec, f)

\* UniqueVec::clear()
clear(vec) == <<>>

\* UniqueVec::drain(start..end): Vec::drain panics when the start is greater than
\* the end or the end greater than the length; otherwise the range leaves the
\* vector and is what the iterator returned yields.
drain(vec, start, end) ==
    IF start > end \/ end > Len(vec)
    THEN [panic |-> TRUE, vec |-> vec, ret |-> <<>>]
    ELSE [panic |-> FALSE,
          vec |-> SubSeq(vec, 1, start) \o SubSeq(vec, end + 1, Len(vec)),
          ret |-> SubSeq(vec, start + 1, end)]

\* for e in &mut vec { if at.contains(index of e) { *e = x } }, through
\* IntoIterator for &mut UniqueVec: the positions of `at` hold x afterwards.
iter_mut_write(vec, at, x) == [i \in 1..Len(vec) |-> IF i \in at THEN x ELSE vec[i]]

\* --------------------------------------------------------------- HashMap

\* HashMap::get
Get(map, key) == IF key \in DOMAIN map THEN Some(map[key]) ELSE None

\* map.entry(key).or_insert_with(|| UniqueVec::new()).insert(x)
EntryInsert(map, key, x) ==
    [k \in DOMAIN map \cup {key} |->
        IF k = key
        THEN insert(IF key \in DOMAIN map THEN map[key] ELSE <<>>, x)
        ELSE map[k]]

\* HashMap::remove(key)
MapRemove(map, key) == [k \in DOMAIN map \ {key} |-> map[k]]

EmptyMap == [k \in {} |-> <<>>]

\* The orders in which a HashMap of the keys `keys` can be iterated.
Orders(keys) ==
    {order \in [1..Cardinality(keys) -> keys] :
        \A i, j \in 1..Cardinality(keys) : order[i] = order[j] => i = j}

\* --------------------------------------------------------------- ControlFlowGraph

\* The graph ControlFlowGraph::new starts from: no node, no edge, no temporary.
EmptyGraph(entry) ==
    [entry |-> entry, nodes |-> <<>>, preds |-> EmptyMap, succs |-> EmptyMap,
     temps |-> <<>>, next_temp |-> 0]

add_edge(g, from, to) ==
    [g EXCEPT !.preds = EntryInsert(g.preds, to, from),
              !.succs = EntryInsert(g.succs, from, to),
              !.nodes = insert(insert(g.nodes, from), to)]

\* Loops that leave every list as it is.
RemoveFromAll_Skip(map, node) == map

\* The two loops of remove_node: every remaining list loses `node`.
RemoveFromAll(map, node) == [k \in DOMAIN map |-> remove(map[k], node)]

\* A remove_node without the loop over the lists of succs.
remove_node_PredsOnly(g, node) ==
    [g EXCEPT !.nodes = remove(g.nodes, node),
              !.preds = RemoveFromAll(MapRemove(g.preds, node), node),
              !.succs = MapRemove(g.succs, node)]

remove_node(g, node) ==
    [g EXCEPT !.nodes = remove(g.nodes, node),
              !.preds = RemoveFromAll(MapRemove(g.preds, node), node),
              !.succs = RemoveFromAll(MapRemove(g.succs, node), node)]

\* A loop over the lists of a map that ends at the first list it removed
\* `node` from.
RECURSIVE RemoveFromEach_FirstHit(_, _, _, _)
RemoveFromEach_FirstHit(map, node, order, i) ==
    IF i > Len(order) THEN map
    ELSE IF order[i] \in DOMAIN map /\ contains(map[order[i]], node)
         THEN [map EXCEPT ![order[i]] = remove(@, node)]
         ELSE RemoveFromEach_FirstHit(map, node, order, i + 1)

\* One loop of remove_node, the map iterated in the order `order` of its keys
\* (keys no longer in the map are passed over).
RECURSIVE RemoveFromEach(_, _, _, _)
RemoveFromEach(map, node, order, i) ==
    IF i > Len(order) THEN map
    ELSE RemoveFromEach(IF order[i] \in DOMAIN map
                        THEN [map EXCEPT ![order[i]] = remove(@, node)]
                        ELSE map,
                        node, order, i + 1)

\* remove_node, the iteration orders of the two maps given.
remove_node_in(g, node, preds_order, succs_order) ==
    [g EXCEPT !.nodes = remove(g.nodes, node),
              !.preds = RemoveFromEach(MapRemove(g.preds, node), node, preds_order, 1),
              !.succs = RemoveFromEach(MapRemove(g.succs, node), node, succs_order, 1)]

\* An insert_node that leaves the edge from `after` to `before` in place.
insert_node_NoDisconnect(g, node, after, before) ==
    add_edge(add_edge(g, after, node), node, before)

insert_node(g, node, after, before) ==
    LET succs1 == IF after \in DOMAIN g.succs
                  THEN [g.succs EXCEPT ![after] = remove(@, before)]
                  ELSE g.succs
        preds1 == IF before \in DOMAIN g.preds
                  THEN [g.preds EXCEPT ![before] = remove(@, after)]
                  ELSE g.preds
        g1 == [g EXCEPT !.succs = succs1, !.preds = preds1]
    IN  add_edge(add_edge(g1, after, node), node, before)

\* The loop of create_temporary_node: the first counter value from n on whose
\* name is not a node of the graph.
\* A loop that takes the counter value as it stands, used or not.
FirstUnused_NoRetry(g, n) == n

RECURSIVE FirstUnused(_, _)
FirstUnused(g, n) ==
    IF ~ contains(g.nodes, IntoNode(TemporaryName(n))) THEN n
    ELSE FirstUnused(g, n + 1)

\* create_temporary_node: the graph afterwards and the name returned.
create_temporary_node(g) ==
    LET n == FirstUnused(g, g.next_temp)
        name == TemporaryName(n)
    IN  [cfg |-> [g EXCEPT !.next_temp = n + 1, !.temps = insert(g.temps, name)],
         name |-> name]

\* dominates_inner and the loop over the successors of `at`; already_checked is
\* the vector the recursion shares, returned with the answer.
RECURSIVE dominates_inner(_, _, _, _, _)
RECURSIVE DominatesSuccs(_, _, _, _, _, _)
dominates_inner(g, at, through, to, already_checked) ==
    LET checked == Append(already_checked, at)
    IN  IF at \notin DOMAIN g.succs
        THEN [ok |-> TRUE, checked |-> checked]
        ELSE DominatesSuccs(g, g.succs[at], 1, through, to, checked)

DominatesSuccs(g, succs, i, through, to, checked) ==
    IF i > Len(succs) THEN [ok |-> TRUE, checked |-> checked]
    ELSE IF contains(checked, succs[i]) \/ succs[i] = through
         THEN DominatesSuccs(g, succs, i + 1, through, to, checked)
         ELSE LET r == dominates_inner(g, succs[i], through, to, checked)
              IN  IF ~ r.ok THEN [ok |-> FALSE, checked |-> r.checked]
                  ELSE DominatesSuccs(g, succs, i + 1, through, to, r.checked)

\* A strict dominates: a node does not dominate itself.
dominates_Strict(g, through, to) ==
    IF through = to THEN FALSE
    ELSE dominates_inner(g, g.entry, through, to, <<>>).ok

dominates(g, through, to) ==
    IF through = to THEN TRUE
    ELSE dominates_inner(g, g.entry, through, to, <<>>).ok

\* cfg.preds(node).map(|preds| preds.len()).unwrap_or(0)
PredCount(g, node) == IF node \in DOMAIN g.preds THEN Len(g.preds[node]) ELSE 0

\* A match without the CallBr arm: the terminator adds no edge.
Unsupported_NoCallBr ==
    {"Invoke", "Resume", "CleanupRet", "CatchRet", "CatchSwitch"}

\* Terminators ControlFlowGraph::new panics on.
Unsupported ==
    {"Invoke", "Resume", "CleanupRet", "CatchRet", "CatchSwitch", "CallBr"}

\* cfg.add_edge(&block.name, dest) for each dest of `dests`, in order.
RECURSIVE AddEdges(_, _, _, _)
AddEdges(g, name, dests, i) ==
    IF i > Len(dests) THEN g
    ELSE AddEdges(add_edge(g, IntoNode(name), IntoNode(dests[i])), name, dests, i + 1)

\* A match whose CondBr arm adds the edge to false_dest first.
TerminatorEdges_FalseFirst(g, block) ==
    LET term == block.term
    IN  CASE term.kind = "Br" ->
               add_edge(g, IntoNode(block.name), IntoNode(term.dest))
          [] term.kind = "CondBr" ->
               add_edge(add_edge(g, IntoNode(block.name), IntoNode(term.false_dest)),
                        IntoNode(block.name), IntoNode(term.true_dest))
          [] term.kind = "Switch" ->
               add_edge(AddEdges(g, block.name, term.dests, 1),
                        IntoNode(block.name), IntoNode(term.default_dest))
          [] term.kind = "IndirectBr" ->
               AddEdges(g, block.name, term.possible_dests, 1)
          [] OTHER -> g

\* One arm of the match on block.term.
TerminatorEdges(g, block) ==
    LET term == block.term
    IN  CASE term.kind = "Br" ->
               add_edge(g, IntoNode(block.name), IntoNode(term.dest))
          [] term.kind = "CondBr" ->
               add_edge(add_edge(g, IntoNode(block.name), IntoNode(term.true_dest)),
                        IntoNode(block.name), IntoNode(term.false_dest))
          [] term.kind = "Switch" ->
               add_edge(AddEdges(g, block.name, term.dests, 1),
                        IntoNode(block.name), IntoNode(term.default_dest))
          [] term.kind = "IndirectBr" ->
               AddEdges(g, block.name, term.possible_dests, 1)
          [] OTHER -> g

\* The loop of ControlFlowGraph::new over the basic blocks from index i on:
\* the graph, or a panic at the first unsupported terminator.
RECURSIVE NewLoop(_, _, _)
NewLoop(g, blocks, i) ==
    IF i > Len(blocks) THEN [panic |-> FALSE, cfg |-> g]
    ELSE IF blocks[i].term.kind \in Unsupported THEN [panic |-> TRUE, cfg |-> g]
         ELSE NewLoop(TerminatorEdges(g, blocks[i]), blocks, i + 1)

ControlFlowGraph_new(f) ==
    NewLoop(EmptyGraph(IntoNode(f.basic_blocks[1].name)), f.basic_blocks, 1)

\* --------------------------------------------------------------- CFA primitives

CFAPreconditionLoop_is_valid(g, cond, body, exit) ==
    /\ ~ contains(g.temps, to_succ(cond))
    /\ ~ contains(g.temps, from_pred(exit))
    /\ dominates(g, cond, body)
    /\ dominates(g, cond, exit)
    /\ cond \in DOMAIN g.succs
    /\ Len(g.succs[cond]) = 2
    /\ contains(g.succs[cond], body)
    /\ contains(g.succs[cond], exit)
    /\ body \in DOMAIN g.preds
    /\ Len(g.preds[body]) = 1
    /\ body \in DOMAIN g.succs
    /\ Len(g.succs[body]) = 1
    /\ contains(g.succs[body], cond)

\* The loop of find_first over cfg.nodes() from index i on.
\* A find_first that tries the two successors of cond in one order only.
RECURSIVE CFAPreconditionLoop_scan_OneOrder(_, _)
CFAPreconditionLoop_scan_OneOrder(g, i) ==
    IF i > Len(g.nodes) THEN None
    ELSE LET cond == g.nodes[i]
         IN  IF cond \notin DOMAIN g.succs
             THEN CFAPreconditionLoop_scan_OneOrder(g, i + 1)
             ELSE IF Len(g.succs[cond]) # 2
             THEN CFAPreconditionLoop_scan_OneOrder(g, i + 1)
             ELSE LET a == g.succs[cond][1]
                      b == g.succs[cond][2]
                  IN  IF CFAPreconditionLoop_is_valid(g, cond, a, b)
                      THEN Some([kind |-> "PreconditionLoop",
                                 cond |-> cond, body |-> a, exit |-> b])
                      ELSE CFAPreconditionLoop_scan_OneOrder(g, i + 1)

RECURSIVE CFAPreconditionLoop_scan(_, _)
CFAPreconditionLoop_scan(g, i) ==
    IF i > Len(g.nodes) THEN None
    ELSE LET cond == g.nodes[i]
         IN  IF cond \notin DOMAIN g.succs THEN CFAPreconditionLoop_scan(g, i + 1)
             ELSE IF Len(g.succs[cond]) # 2 THEN CFAPreconditionLoop_scan(g, i + 1)
             ELSE LET a == g.succs[cond][1]
                      b == g.succs[cond][2]
                  IN  IF CFAPreconditionLoop_is_valid(g, cond, a, b)
                      THEN Some([kind |-> "PreconditionLoop",
                                 cond |-> cond, body |-> a, exit |-> b])
                      ELSE IF CFAPreconditionLoop_is_valid(g, cond, b, a)
                      THEN Some([kind |-> "PreconditionLoop",
                                 cond |-> cond, body |-> b, exit |-> a])
                      ELSE CFAPreconditionLoop_scan(g, i + 1)

CFAPreconditionLoop_find_first(g) == CFAPreconditionLoop_scan(g, 1)

\* insert_needed_node of a primitive: the graph, the primitive and the names
\* create_temporary_node returned.
CFAPreconditionLoop_insert_needed_node(g, p) ==
    IF PredCount(g, p.exit) # 1
    THEN LET t == create_temporary_node(g)
         IN  [cfg |-> insert_node(t.cfg, IntoNode(t.name), p.cond, p.exit),
              prim |-> [p EXCEPT !.exit = IntoNode(t.name)],
              names |-> <<t.name>>]
    ELSE [cfg |-> g, prim |-> p, names |-> <<>>]

CFAPostconditionLoop_is_valid(g, cond, exit) ==
    /\ ~ contains(g.temps, to_succ(cond))
    /\ ~ contains(g.temps, from_pred(exit))
    /\ dominates(g, cond, exit)
    /\ cond \in DOMAIN g.succs
    /\ Len(g.succs[cond]) = 2
    /\ contains(g.succs[cond], cond)
    /\ contains(g.succs[cond], exit)

RECURSIVE CFAPostconditionLoop_scan(_, _)
CFAPostconditionLoop_scan(g, i) ==
    IF i > Len(g.nodes) THEN None
    ELSE LET cond == g.nodes[i]
         IN  IF cond \notin DOMAIN g.succs THEN CFAPostconditionLoop_scan(g, i + 1)
             ELSE IF Len(g.succs[cond]) # 2 THEN CFAPostconditionLoop_scan(g, i + 1)
             ELSE LET a == g.succs[cond][1]
                      b == g.succs[cond][2]
                  IN  IF CFAPostconditionLoop_is_valid(g, cond, a)
                      THEN Some([kind |-> "PostconditionLoop",
                                 cond |-> cond, exit |-> a])
                      ELSE IF CFAPostconditionLoop_is_valid(g, cond, b)
                      THEN Some([kind |-> "PostconditionLoop",
                                 cond |-> cond, exit |-> b])
                      ELSE CFAPostconditionLoop_scan(g, i + 1)

CFAPostconditionLoop_find_first(g) == CFAPostconditionLoop_scan(g, 1)

CFAPostconditionLoop_insert_needed_node(g, p) ==
    IF PredCount(g, p.exit) # 1
    THEN LET t == create_temporary_node(g)
         IN  [cfg |-> insert_node(t.cfg, IntoNode(t.name), p.cond, p.exit),
              prim |-> [p EXCEPT !.exit = IntoNode(t.name)],
              names |-> <<t.name>>]
    ELSE [cfg |-> g, prim |-> p, names |-> <<>>]

\* for cond_pred in cfg.preds(cond): every predecessor of cond dominates cond.
PredsDominate(g, cond) ==
    cond \in DOMAIN g.preds =>
        \A i \in 1..Len(g.preds[cond]) : dominates(g, g.preds[cond][i], cond)

CFAOnewayConditional_is_valid(g, cond, body, exit) ==
    /\ ~ contains(g.temps, to_succ(cond))
    /\ ~ contains(g.temps, from_pred(exit))
    /\ dominates(g, cond, body)
    /\ dominates(g, cond, exit)
    /\ PredsDominate(g, cond)
    /\ cond \in DOMAIN g.succs
    /\ Len(g.succs[cond]) = 2
    /\ contains(g.succs[cond], body)
    /\ contains(g.succs[cond], exit)
    /\ body \in DOMAIN g.preds
    /\ Len(g.preds[body]) = 1
    /\ body \in DOMAIN g.succs
    /\ Len(g.succs[body]) = 1
    /\ contains(g.succs[body], exit)

RECURSIVE CFAOnewayConditional_scan(_, _)
CFAOnewayConditional_scan(g, i) ==
    IF i > Len(g.nodes) THEN None
    ELSE LET cond == g.nodes[i]
         IN  IF cond \notin DOMAIN g.succs THEN CFAOnewayConditional_scan(g, i + 1)
             ELSE IF Len(g.succs[cond]) # 2 THEN CFAOnewayConditional_scan(g, i + 1)
             ELSE LET a == g.succs[cond][1]
                      b == g.succs[cond][2]
                  IN  IF CFAOnewayConditional_is_valid(g, cond, a, b)
                      THEN Some([kind |-> "OnewayConditional",
                                 cond |-> cond, body |-> a, exit |-> b])
                      ELSE IF CFAOnewayConditional_is_valid(g, cond, b, a)
                      THEN Some([kind |-> "OnewayConditional",
                                 cond |-> cond, body |-> b, exit |-> a])
                      ELSE CFAOnewayConditional_scan(g, i + 1)

CFAOnewayConditional_find_first(g) == CFAOnewayConditional_scan(g, 1)

\* A fix-up with the threshold of the other variants: one predecessor.
CFAOnewayConditional_insert_needed_node_One(g, p) ==
    IF PredCount(g, p.exit) # 1
    THEN LET t == create_temporary_node(g)
             g1 == insert_node(t.cfg, IntoNode(t.name), p.cond, p.exit)
         IN  [cfg |-> insert_node(g1, IntoNode(t.name), p.body, p.exit),
              prim |-> [p EXCEPT !.exit = IntoNode(t.name)],
              names |-> <<t.name>>]
    ELSE [cfg |-> g, prim |-> p, names |-> <<>>]

CFAOnewayConditional_insert_needed_node(g, p) ==
    IF PredCount(g, p.exit) # 2
    THEN LET t == create_temporary_node(g)
             g1 == insert_node(t.cfg, IntoNode(t.name), p.cond, p.exit)
         IN  [cfg |-> insert_node(g1, IntoNode(t.name), p.body, p.exit),
              prim |-> [p EXCEPT !.exit = IntoNode(t.name)],
              names |-> <<t.name>>]
    ELSE [cfg |-> g, prim |-> p, names |-> <<>>]

\* for cond_pred in cond_preds: no predecessor of cond is dominated by cond.
NoPredDominated(g, cond) ==
    cond \in DOMAIN g.preds =>
        \A i \in 1..Len(g.preds[cond]) : ~ dominates(g, cond, g.preds[cond][i])

CFAOnewayReturnConditional_is_valid(g, cond, body, exit) ==
    /\ ~ contains(g.temps, to_succ(cond))
    /\ ~ contains(g.temps, from_pred(exit))
    /\ dominates(g, cond, body)
    /\ dominates(g, cond, exit)
    /\ PredsDominate(g, cond)
    /\ cond \in DOMAIN g.succs
    /\ Len(g.succs[cond]) = 2
    /\ contains(g.succs[cond], body)
    /\ contains(g.succs[cond], exit)
    /\ body \in DOMAIN g.preds
    /\ Len(g.preds[body]) = 1
    /\ (body \in DOMAIN g.succs => ~ (Len(g.succs[body]) > 0))
    /\ NoPredDominated(g, cond)

\* A find_first that tries the second successor of cond as the body first.
RECURSIVE CFAOnewayReturnConditional_scan_Swapped(_, _)
CFAOnewayReturnConditional_scan_Swapped(g, i) ==
    IF i > Len(g.nodes) THEN None
    ELSE LET cond == g.nodes[i]
         IN  IF cond \notin DOMAIN g.succs
             THEN CFAOnewayReturnConditional_scan_Swapped(g, i + 1)
             ELSE IF Len(g.succs[cond]) # 2
             THEN CFAOnewayReturnConditional_scan_Swapped(g, i + 1)
             ELSE LET a == g.succs[cond][2]
                      b == g.succs[cond][1]
                  IN  IF CFAOnewayReturnConditional_is_valid(g, cond, a, b)
                      THEN Some([kind |-> "OnewayReturnConditional",
                                 cond |-> cond, body |-> a, exit |-> b])
                      ELSE IF CFAOnewayReturnConditional_is_valid(g, cond, b, a)
                      THEN Some([kind |-> "OnewayReturnConditional",
                                 cond |-> cond, body |-> b, exit |-> a])
                      ELSE CFAOnewayReturnConditional_scan_Swapped(g, i + 1)

RECURSIVE CFAOnewayReturnConditional_scan(_, _)
CFAOnewayReturnConditional_scan(g, i) ==
    IF i > Len(g.nodes) THEN None
    ELSE LET cond == g.nodes[i]
         IN  IF cond \notin DOMAIN g.succs
             THEN CFAOnewayReturnConditional_scan(g, i + 1)
             ELSE IF Len(g.succs[cond]) # 2
             THEN CFAOnewayReturnConditional_scan(g, i + 1)
             ELSE LET a == g.succs[cond][1]
                      b == g.succs[cond][2]
                  IN  IF CFAOnewayReturnConditional_is_valid(g, cond, a, b)
                      THEN Some([kind |-> "OnewayReturnConditional",
                                 cond |-> cond, body |-> a, exit |-> b])
                      ELSE IF CFAOnewayReturnConditional_is_valid(g, cond, b, a)
                      THEN Some([kind |-> "OnewayReturnConditional",
                                 cond |-> cond, body |-> b, exit |-> a])
                      ELSE CFAOnewayReturnConditional_scan(g, i + 1)

CFAOnewayReturnConditional_find_first(g) == CFAOnewayReturnConditional_scan(g, 1)

CFAOnewayReturnConditional_insert_needed_node(g, p) ==
    IF PredCount(g, p.exit) # 1
    THEN LET t == create_temporary_node(g)
         IN  [cfg |-> insert_node(t.cfg, IntoNode(t.name), p.cond, p.exit),
              prim |-> [p EXCEPT !.exit = IntoNode(t.name)],
              names |-> <<t.name>>]
    ELSE [cfg |-> g, prim |-> p, names |-> <<>>]

\* An is_valid that checks the first body only.
CFATwowayConditional_is_valid_FirstBody(g, cond, body_a, body_b, exit) ==
    /\ ~ contains(g.temps, to_succ(cond))
    /\ ~ contains(g.temps, from_pred(exit))
    /\ dominates(g, cond, body_a)
    /\ dominates(g, cond, exit)
    /\ PredsDominate(g, cond)
    /\ cond \in DOMAIN g.succs
    /\ Len(g.succs[cond]) = 2
    /\ contains(g.succs[cond], body_a)
    /\ contains(g.succs[cond], body_b)
    /\ body_a \in DOMAIN g.preds
    /\ Len(g.preds[body_a]) = 1
    /\ body_a \in DOMAIN g.succs
    /\ Len(g.succs[body_a]) = 1
    /\ contains(g.succs[body_a], exit)

CFATwowayConditional_is_valid(g, cond, body_a, body_b, exit) ==
    /\ ~ contains(g.temps, to_succ(cond))
    /\ ~ contains(g.temps, from_pred(exit))
    /\ dominates(g, cond, body_a)
    /\ dominates(g, cond, body_b)
    /\ dominates(g, cond, exit)
    /\ PredsDominate(g, cond)
    /\ cond \in DOMAIN g.succs
    /\ Len(g.succs[cond]) = 2
    /\ contains(g.succs[cond], body_a)
    /\ contains(g.succs[cond], body_b)
    /\ body_a \in DOMAIN g.preds
    /\ Len(g.preds[body_a]) = 1
    /\ body_a \in DOMAIN g.succs
    /\ Len(g.succs[body_a]) = 1
    /\ contains(g.succs[body_a], exit)
    /\ body_b \in DOMAIN g.preds
    /\ Len(g.preds[body_b]) = 1
    /\ body_b \in DOMAIN g.succs
    /\ Len(g.succs[body_b]) = 1
    /\ contains(g.succs[body_b], exit)

RECURSIVE CFATwowayConditional_scan(_, _)
CFATwowayConditional_scan(g, i) ==
    IF i > Len(g.nodes) THEN None
    ELSE LET cond == g.nodes[i]
         IN  IF cond \notin DOMAIN g.succs THEN CFATwowayConditional_scan(g, i + 1)
             ELSE IF Len(g.succs[cond]) # 2 THEN CFATwowayConditional_scan(g, i + 1)
             ELSE LET body_a == g.succs[cond][1]
                      body_b == g.succs[cond][2]
                  IN  IF body_a \notin DOMAIN g.succs
                      THEN CFATwowayConditional_scan(g, i + 1)
                      ELSE IF Len(g.succs[body_a]) # 1
                      THEN CFATwowayConditional_scan(g, i + 1)
                      ELSE LET exit == g.succs[body_a][1]
                           IN  IF CFATwowayConditional_is_valid(g, cond, body_a, body_b, exit)
                               THEN Some([kind |-> "TwowayConditional", cond |-> cond,
                                          body_a |-> body_a, body_b |-> body_b,
                                          exit |-> exit])
                               ELSE CFATwowayConditional_scan(g, i + 1)

CFATwowayConditional_find_first(g) == CFATwowayConditional_scan(g, 1)

\* A fix-up with the threshold of the loops and the sequence: one predecessor.
CFATwowayConditional_insert_needed_node_One(g, p) ==
    IF PredCount(g, p.exit) # 1
    THEN LET t == create_temporary_node(g)
             g1 == insert_node(t.cfg, IntoNode(t.name), p.body_a, p.exit)
         IN  [cfg |-> insert_node(g1, IntoNode(t.name), p.body_b, p.exit),
              prim |-> [p EXCEPT !.exit = IntoNode(t.name)],
              names |-> <<t.name>>]
    ELSE [cfg |-> g, prim |-> p, names |-> <<>>]

\* A fix-up that never splices a temporary in.
CFATwowayConditional_insert_needed_node_Never(g, p) ==
    [cfg |-> g, prim |-> p, names |-> <<>>]

CFATwowayConditional_insert_needed_node(g, p) ==
    IF PredCount(g, p.exit) # 2
    THEN LET t == create_temporary_node(g)
             g1 == insert_node(t.cfg, IntoNode(t.name), p.body_a, p.exit)
         IN  [cfg |-> insert_node(g1, IntoNode(t.name), p.body_b, p.exit),
              prim |-> [p EXCEPT !.exit = IntoNode(t.name)],
              names |-> <<t.name>>]
    ELSE [cfg |-> g, prim |-> p, names |-> <<>>]

\* An is_valid without the check of the temporaries.
CFAStatementSequence_is_valid_NoTemps(g, entry, exit) ==
    /\ dominates(g, entry, exit)
    /\ entry \in DOMAIN g.succs
    /\ Len(g.succs[entry]) = 1
    /\ contains(g.succs[entry], exit)

CFAStatementSequence_is_valid(g, entry, exit) ==
    /\ ~ contains(g.temps, to_succ(entry))
    /\ ~ contains(g.temps, from_pred(exit))
    /\ dominates(g, entry, exit)
    /\ entry \in DOMAIN g.succs
    /\ Len(g.succs[entry]) = 1
    /\ contains(g.succs[entry], exit)

RECURSIVE CFAStatementSequence_scan(_, _)
CFAStatementSequence_scan(g, i) ==
    IF i > Len(g.nodes) THEN None
    ELSE LET entry == g.nodes[i]
         IN  IF entry \notin DOMAIN g.succs THEN CFAStatementSequence_scan(g, i + 1)
             ELSE IF Len(g.succs[entry]) # 1 THEN CFAStatementSequence_scan(g, i + 1)
             ELSE LET exit == g.succs[entry][1]
                  IN  IF CFAStatementSequence_is_valid(g, entry, exit)
                      THEN Some([kind |-> "StatementSequence",
                                 entry |-> entry, exit |-> exit])
                      ELSE CFAStatementSequence_scan(g, i + 1)

CFAStatementSequence_find_first(g) == CFAStatementSequence_scan(g, 1)

CFAStatementSequence_insert_needed_node(g, p) ==
    IF PredCount(g, p.exit) # 1
    THEN LET t == create_temporary_node(g)
         IN  [cfg |-> insert_node(t.cfg, IntoNode(t.name), p.entry, p.exit),
              prim |-> [p EXCEPT !.exit = IntoNode(t.name)],
              names |-> <<t.name>>]
    ELSE [cfg |-> g, prim |-> p, names |-> <<>>]

\* --------------------------------------------------------------- CFAPrim

\* A find_first that tries the StatementSequence before the other variants.
CFAPrim_find_first_SequenceFirst(g) ==
    IF IsSome(CFAStatementSequence_find_first(g))
    THEN CFAStatementSequence_find_first(g)
    ELSE IF IsSome(CFAPreconditionLoop_find_first(g))
    THEN CFAPreconditionLoop_find_first(g)
    ELSE IF IsSome(CFAPostconditionLoop_find_first(g))
    THEN CFAPostconditionLoop_find_first(g)
    ELSE IF IsSome(CFAOnewayConditional_find_first(g))
    THEN CFAOnewayConditional_find_first(g)
    ELSE IF IsSome(CFAOnewayReturnConditional_find_first(g))
    THEN CFAOnewayReturnConditional_find_first(g)
    ELSE IF IsSome(CFATwowayConditional_find_first(g))
    THEN CFATwowayConditional_find_first(g)
    ELSE None

CFAPrim_find_first(g) ==
    IF IsSome(CFAPreconditionLoop_find_first(g))
    THEN CFAPreconditionLoop_find_first(g)
    ELSE IF IsSome(CFAPostconditionLoop_find_first(g))
    THEN CFAPostconditionLoop_find_first(g)
    ELSE IF IsSome(CFAOnewayConditional_find_first(g))
    THEN CFAOnewayConditional_find_first(g)
    ELSE IF IsSome(CFAOnewayReturnConditional_find_first(g))
    THEN CFAOnewayReturnConditional_find_first(g)
    ELSE IF IsSome(CFATwowayConditional_find_first(g))
    THEN CFATwowayConditional_find_first(g)
    ELSE IF IsSome(CFAStatementSequence_find_first(g))
    THEN CFAStatementSequence_find_first(g)
    ELSE None

CFAPrim_entry(p) == IF p.kind = "StatementSequence" THEN p.entry ELSE p.cond

CFAPrim_exit(p) == p.exit

CFAPrim_nodes(p) ==
    CASE p.kind = "PreconditionLoop" -> <<p.cond, p.body, p.exit>>
      [] p.kind = "PostconditionLoop" -> <<p.cond, p.exit>>
      [] p.kind = "OnewayConditional" -> <<p.cond, p.body, p.exit>>
      [] p.kind = "OnewayReturnConditional" -> <<p.cond, p.body, p.exit>>
      [] p.kind = "TwowayConditional" -> <<p.cond, p.body_a, p.body_b, p.exit>>
      [] p.kind = "StatementSequence" -> <<p.entry, p.exit>>

\* The match at the head of merge: the variant's insert_needed_node.
CFAPrim_insert_needed_node(g, p) ==
    CASE p.kind = "PreconditionLoop" -> CFAPreconditionLoop_insert_needed_node(g, p)
      [] p.kind = "PostconditionLoop" -> CFAPostconditionLoop_insert_needed_node(g, p)
      [] p.kind = "OnewayConditional" -> CFAOnewayConditional_insert_needed_node(g, p)
      [] p.kind = "OnewayReturnConditional" ->
             CFAOnewayReturnConditional_insert_needed_node(g, p)
      [] p.kind = "TwowayConditional" -> CFATwowayConditional_insert_needed_node(g, p)
      [] p.kind = "StatementSequence" -> CFAStatementSequence_insert_needed_node(g, p)

\* A loop that removes none of the nodes.
RemoveNodes_None(g, nodes, i) == g

\* for &node in &nodes { cfg.remove_node(node) }
RECURSIVE RemoveNodes(_, _, _)
RemoveNodes(g, nodes, i) ==
    IF i > Len(nodes) THEN g
    ELSE RemoveNodes(remove_node(g, nodes[i]), nodes, i + 1)

\* Connect incoming edges: each entry_pred outside the primitive gets an edge
\* to new_node.
RECURSIVE ConnectIncoming(_, _, _, _, _)
ConnectIncoming(g, entry_preds, nodes, new_node, i) ==
    IF i > Len(entry_preds) THEN g
    ELSE ConnectIncoming(
             IF ~ contains(nodes, entry_preds[i])
             THEN add_edge(g, entry_preds[i], new_node) ELSE g,
             entry_preds, nodes, new_node, i + 1)

\* Connect outgoing edges: new_node gets an edge to each exit_succ outside the
\* primitive.
RECURSIVE ConnectOutgoing(_, _, _, _, _)
ConnectOutgoing(g, exit_succs, nodes, new_node, i) ==
    IF i > Len(exit_succs) THEN g
    ELSE ConnectOutgoing(
             IF ~ contains(nodes, exit_succs[i])
             THEN add_edge(g, new_node, exit_succs[i]) ELSE g,
             exit_succs, nodes, new_node, i + 1)

\* for &node in &nodes { cfg.remove_node(node) }, the iteration orders of the
\* two maps given.
RECURSIVE RemoveNodesIn(_, _, _, _, _)
RemoveNodesIn(g, nodes, preds_order, succs_order, i) ==
    IF i > Len(nodes) THEN g
    ELSE RemoveNodesIn(remove_node_in(g, nodes[i], preds_order, succs_order),
                       nodes, preds_order, succs_order, i + 1)

\* A reconnection that makes the new node the entry of the graph whichever
\* primitive was merged.
Reconnect_AlwaysRoot(g, g1, p) ==
    LET entry == CFAPrim_entry(p)
        exit == CFAPrim_exit(p)
        nodes == CFAPrim_nodes(p)
        entry_preds == Get(g.preds, entry)
        exit_succs == Get(g.succs, exit)
        new_node == CFGNode(from_pred(entry), to_succ(exit))
        g2 == IF IsSome(entry_preds)
              THEN ConnectIncoming(g1, Unwrap(entry_preds), nodes, new_node, 1)
              ELSE g1
        g3 == IF IsSome(exit_succs)
              THEN ConnectOutgoing(g2, Unwrap(exit_succs), nodes, new_node, 1)
              ELSE g2
    IN  [g3 EXCEPT !.entry = new_node]

\* merge around the removal of the nodes: g is the graph before the removal, of
\* which is_root_node and the two snapshots are taken, g1 the graph after it,
\* to which the new node is connected.
Reconnect(g, g1, p) ==
    LET entry == CFAPrim_entry(p)
        exit == CFAPrim_exit(p)
        nodes == CFAPrim_nodes(p)
        is_root_node == entry = g.entry
        entry_preds == Get(g.preds, entry)
        exit_succs == Get(g.succs, exit)
        new_node == CFGNode(from_pred(entry), to_succ(exit))
        g2 == IF IsSome(entry_preds)
              THEN ConnectIncoming(g1, Unwrap(entry_preds), nodes, new_node, 1)
              ELSE g1
        g3 == IF IsSome(exit_succs)
              THEN ConnectOutgoing(g2, Unwrap(exit_succs), nodes, new_node, 1)
              ELSE g2
    IN  IF is_root_node THEN [g3 EXCEPT !.entry = new_node] ELSE g3

\* merge after the fix-up: the primitive's nodes become one node.
MergeNodes(g, p) == Reconnect(g, RemoveNodes(g, CFAPrim_nodes(p), 1), p)

\* The same, the iteration orders of the two maps given.
MergeNodesIn(g, p, preds_order, succs_order) ==
    Reconnect(g, RemoveNodesIn(g, CFAPrim_nodes(p), preds_order, succs_order, 1), p)

\* CFAPrim::merge: the fix-up, then the merge of the nodes.
merge(g, p) ==
    LET fix == CFAPrim_insert_needed_node(g, p)
    IN  [cfg |-> MergeNodes(fix.cfg, fix.prim), prim |-> fix.prim, names |-> fix.names]

\* A push that puts the new primitive at the head of the list.
Push_Front(ps, p) == <<p>> \o ps

\* prims.push(prim)
Push(ps, p) == Append(ps, p)

\* The loop of find_all from the graph g and the primitives ps on: the bundle,
\* or the panic of the unwrap.
RECURSIVE find_all(_, _)
find_all(g, ps) ==
    IF Len(g.nodes) > 1
    THEN LET p == CFAPrim_find_first(g)
         IN  IF p = None THEN [tag |-> "Panic"]
             ELSE LET m == merge(g, Unwrap(p))
                  IN  find_all(m.cfg, Push(ps, m.prim))
    ELSE [tag |-> "Some",
          bundle |-> [entry |-> g.entry, temps |-> g.temps, prims |-> ps]]

\* --------------------------------------------------------------- CFRGroups

\* A search that compares the from_pred of the entry only.
RECURSIVE FindPrim_FromPredOnly(_, _, _)
FindPrim_FromPredOnly(ps, at, i) ==
    IF i > Len(ps) THEN None
    ELSE IF from_pred(CFAPrim_entry(ps[i])) = from_pred(at)
         THEN Some(ps[i])
         ELSE FindPrim_FromPredOnly(ps, at, i + 1)

\* The first primitive of the bundle whose meta-node identity is that of `at`.
RECURSIVE FindPrim(_, _, _)
FindPrim(ps, at, i) ==
    IF i > Len(ps) THEN None
    ELSE IF /\ from_pred(CFAPrim_entry(ps[i])) = from_pred(at)
            /\ to_succ(CFAPrim_exit(ps[i])) = to_succ(at)
         THEN Some(ps[i])
         ELSE FindPrim(ps, at, i + 1)

Groups(gs) == [tag |-> "Some", groups |-> gs]
\* handle returned None.
NoGroups == [tag |-> "None", groups |-> <<>>]
\* out.groups.pop().unwrap() on an empty vector.
PopPanic == [tag |-> "Panic", groups |-> <<>>]
\* handle called itself with the node it is handling: the recursion never ends.
Overflow == [tag |-> "Overflow", groups |-> <<>>]

\* out.groups without its last element.
Front(gs) == SubSeq(gs, 1, Len(gs) - 1)
Last(gs) == gs[Len(gs)]

\* A leaf case that emits a Block for a temporary too.
Leaf_NoTemps(b, at) ==
    IF from_pred(at) = to_succ(at)
    THEN Groups(<<[kind |-> "Block", name |-> from_pred(at)]>>)
    ELSE NoGroups

\* The end of handle, no primitive having matched `at`: a block, nothing for a
\* temporary, None for a node that is not a single block.
Leaf(b, at) ==
    IF from_pred(at) = to_succ(at)
    THEN IF ~ contains(b.temps, from_pred(at))
         THEN Groups(<<[kind |-> "Block", name |-> from_pred(at)]>>)
         ELSE Groups(<<>>)
    ELSE NoGroups

\* CFRGroups::handle(prims, at); `stack` holds the nodes of the calls in progress.
RECURSIVE handle(_, _, _)
handle(b, at, stack) ==
    IF contains(stack, at) THEN Overflow
    ELSE
    LET found == FindPrim(b.prims, at, 1)
        p == Unwrap(found)
        st == Append(stack, at)
    IN  IF IsSome(found)
        THEN CASE p.kind = "PreconditionLoop" ->
                    LET cond == handle(b, p.cond, st)
                        body == handle(b, p.body, st)
                        exit == handle(b, p.exit, st)
                    IN  IF cond.tag # "Some" THEN cond
                        ELSE IF body.tag # "Some" THEN body
                        ELSE IF exit.tag # "Some" THEN exit
                        ELSE Groups(<<[kind |-> "PreconditionLoop",
                                       cond |-> cond.groups, body |-> body.groups]>>
                                    \o exit.groups)
               [] p.kind = "PostconditionLoop" ->
                    LET cond == handle(b, p.cond, st)
                        exit == handle(b, p.exit, st)
                    IN  IF cond.tag # "Some" THEN cond
                        ELSE IF exit.tag # "Some" THEN exit
                        ELSE Groups(<<[kind |-> "PostconditionLoop",
                                       cond |-> cond.groups]>>
                                    \o exit.groups)
               [] p.kind \in {"OnewayConditional", "OnewayReturnConditional"} ->
                    LET out == handle(b, p.cond, st)
                        body == handle(b, p.body, st)
                        exit == handle(b, p.exit, st)
                    IN  IF out.tag # "Some" THEN out
                        ELSE IF out.groups = <<>> THEN PopPanic
                        ELSE IF body.tag # "Some" THEN body
                        ELSE IF exit.tag # "Some" THEN exit
                        ELSE Groups(Front(out.groups)
                                    \o <<[kind |-> p.kind,
                                          cond |-> <<Last(out.groups)>>,
                                          body |-> body.groups]>>
                                    \o exit.groups)
               [] p.kind = "TwowayConditional" ->
                    LET out == handle(b, p.cond, st)
                        body_a == handle(b, p.body_a, st)
                        body_b == handle(b, p.body_b, st)
                        exit == handle(b, p.exit, st)
                    IN  IF out.tag # "Some" THEN out
                        ELSE IF out.groups = <<>> THEN PopPanic
                        ELSE IF body_a.tag # "Some" THEN body_a
                        ELSE IF body_b.tag # "Some" THEN body_b
                        ELSE IF exit.tag # "Some" THEN exit
                        ELSE Groups(Front(out.groups)
                                    \o <<[kind |-> "TwowayConditional",
                                          cond |-> <<Last(out.groups)>>,
                                          body_true |-> body_a.groups,
                                          body_false |-> body_b.groups]>>
                                    \o exit.groups)
               [] p.kind = "StatementSequence" ->
                    LET out == handle(b, p.entry, st)
                        exit == handle(b, p.exit, st)
                    IN  IF out.tag # "Some" THEN out
                        ELSE IF exit.tag # "Some" THEN exit
                        ELSE Groups(out.groups \o exit.groups)
        ELSE Leaf(b, at)

CFRGroups_new(b) == handle(b, b.entry, <<>>)

\* --------------------------------------------------------------- inputs

Ret == [kind |-> "Ret"]
Unreachable == [kind |-> "Unreachable"]
Br(dest) == [kind |-> "Br", dest |-> dest]
CondBr(true_dest, false_dest) ==
    [kind |-> "CondBr", true_dest |-> true_dest, false_dest |-> false_dest]
Switch(dests, default_dest) ==
    [kind |-> "Switch", dests |-> dests, default_dest |-> default_dest]
IndirectBr(possible_dests) ==
    [kind |-> "IndirectBr", possible_dests |-> possible_dests]
Invoke == [kind |-> "Invoke"]
BasicBlock(name, term) == [name |-> name, term |-> term]
Function(basic_blocks) == [basic_blocks |-> basic_blocks]

\* The names of the blocks of the enumerated functions, in block order.
BlockNames == <<"b1", "b2", "b3", "b4">>
BlockName(i) == BlockNames[i]

\* The terminators of a block of a function of n blocks b1..bn.
Terminators(n) ==
    {Ret} \cup {Br(BlockName(d)) : d \in 1..n}
          \cup {CondBr(BlockName(t), BlockName(f)) : t \in 1..n, f \in 1..n}

\* The number of destinations a terminator names.
DestCount(term) ==
    CASE term.kind = "Br" -> 1 [] term.kind = "CondBr" -> 2 [] OTHER -> 0

RECURSIVE TotalDests(_, _)
TotalDests(ts, i) ==
    IF i > Len(ts) THEN 0 ELSE DestCount(ts[i]) + TotalDests(ts, i + 1)

\* Every function of n blocks b1..bn, b1 first, within the bound.
FunctionsOf(n) ==
    {Function([i \in 1..n |-> BasicBlock(BlockName(i), ts[i])]) :
        ts \in {t \in [1..n -> Terminators(n)] : TotalDests(t, 1) <= MaxDests}}

\* while (b2) { b3 } b4, after b1; the loop body is the true or the false branch.
WhileLoop(body_first) ==
    Function(<<BasicBlock("b1", Br("b2")),
               BasicBlock("b2", IF body_first THEN CondBr("b3", "b4")
                                ELSE CondBr("b4", "b3")),
               BasicBlock("b3", Br("b2")),
               BasicBlock("b4", Ret)>>)

\* while (b1) { if (b2) { b3 } else { b4 } } b5, after b0.
NestedLoop ==
    Function(<<BasicBlock("b0", Br("b1")),
               BasicBlock("b1", CondBr("b2", "b5")),
               BasicBlock("b2", CondBr("b3", "b4")),
               BasicBlock("b3", Br("b1")),
               BasicBlock("b4", Br("b1")),
               BasicBlock("b5", Ret)>>)

\* if (b1) { b2 } else { b3 } b4
IfElse ==
    Function(<<BasicBlock("b1", CondBr("b2", "b3")),
               BasicBlock("b2", Br("b4")),
               BasicBlock("b3", Br("b4")),
               BasicBlock("b4", Ret)>>)

\* while (b2) { b3; b4 } b5, after b1.
TwoBlockBodyLoop ==
    Function(<<BasicBlock("b1", Br("b2")),
               BasicBlock("b2", CondBr("b3", "b5")),
               BasicBlock("b3", Br("b4")),
               BasicBlock("b4", Br("b2")),
               BasicBlock("b5", Ret)>>)

\* b1 -> b2 -> b3 -> b4
Linear ==
    Function(<<BasicBlock("b1", Br("b2")),
               BasicBlock("b2", Br("b3")),
               BasicBlock("b3", Br("b4")),
               BasicBlock("b4", Unreachable)>>)

\* if (b1) { b2: return } b3
IfReturn ==
    Function(<<BasicBlock("b1", CondBr("b2", "b3")),
               BasicBlock("b2", Ret),
               BasicBlock("b3", Ret)>>)

\* b1 -> b2 -> ... -> bn
Chain(n) ==
    Function([i \in 1..n |->
                 BasicBlock(BlockName(i), IF i < n THEN Br(BlockName(i + 1)) ELSE Ret)])

\* if (b1) { b2; b4 } else { b3 } b5
LongTrueBranch ==
    Function(<<BasicBlock("b1", CondBr("b2", "b3")),
               BasicBlock("b2", Br("b4")),
               BasicBlock("b3", Br("b5")),
               BasicBlock("b4", Br("b5")),
               BasicBlock("b5", Ret)>>)

\* A three-way switch and an indirect branch.
SwitchFunction ==
    Function(<<BasicBlock("b1", Switch(<<"b2", "b3">>, "b4")),
               BasicBlock("b2", Br("b4")),
               BasicBlock("b3", Br("b4")),
               BasicBlock("b4", Ret)>>)

IndirectBrFunction ==
    Function(<<BasicBlock("b1", IndirectBr(<<"b2", "b3", "b4">>)),
               BasicBlock("b2", Ret),
               BasicBlock("b3", Ret),
               BasicBlock("b4", Ret)>>)

\* Terminators that name a destination more than once.
RepeatedDests ==
    Function(<<BasicBlock("b1", Switch(<<"b2", "b3", "b2">>, "b3")),
               BasicBlock("b2", CondBr("b3", "b1")),
               BasicBlock("b3", IndirectBr(<<"b1", "b1", "b2">>)),
               BasicBlock("b4", CondBr("b4", "b4")),
               BasicBlock("b5", Unreachable)>>)

\* A function with an unsupported terminator.
InvokeFunction ==
    Function(<<BasicBlock("b1", Br("b2")),
               BasicBlock("b2", Invoke),
               BasicBlock("b3", Ret)>>)

\* A function of Len(BlockNames) - 1 blocks whose block number `at` has a
\* terminator of the kind `kind`; the other blocks branch on, the last returns.
WithTerminator(kind, at) ==
    Function([i \in 1..(Len(BlockNames) - 1) |->
                 BasicBlock(BlockName(i),
                            IF i = at THEN [kind |-> kind]
                            ELSE IF i < Len(BlockNames) - 1
                            THEN CondBr(BlockName(i + 1), BlockName(1))
                            ELSE Ret)])

\* The functions with one terminator ControlFlowGraph::new does not support, of
\* each kind and in each position.
UnsupportedFunctions ==
    {WithTerminator(kind, at) :
        kind \in {"Invoke", "Resume", "CleanupRet", "CatchRet", "CatchSwitch", "CallBr"},
        at \in 1..(Len(BlockNames) - 1)}

\* The graph of the documentation of the cfg and cfa modules, the blocks in the
\* order that gives the documented order of the nodes and of every list.
DocExample ==
    Function(<<BasicBlock("start", Br("bb1")),
               BasicBlock("bb1", CondBr("bb2", "bb7")),
               BasicBlock("bb7", CondBr("bb13", "bb8")),
               BasicBlock("bb2", CondBr("bb3", "bb4")),
               BasicBlock("bb8", CondBr("bb10", "bb8")),
               BasicBlock("bb3", Br("bb4")),
               BasicBlock("bb4", CondBr("bb5", "bb6")),
               BasicBlock("bb10", Br("bb13")),
               BasicBlock("bb6", Br("bb1")),
               BasicBlock("bb5", Br("bb1")),
               BasicBlock("bb13", Ret)>>)

\* Blocks whose names follow the pattern of the temporaries: a loop whose body
\* is an if-else, so that the fix-up needs a temporary while a block of that
\* name is in the graph.
TemporaryNamed(n) ==
    Function(<<BasicBlock("b1", CondBr("b2", TemporaryName(n))),
               BasicBlock("b2", CondBr("b3", "b4")),
               BasicBlock("b3", Br("b1")),
               BasicBlock("b4", Br("b1")),
               BasicBlock(TemporaryName(n), Ret)>>)

\* while (b1) { if (b2) { if (t) { b3 } b4 } } b5, after b0, the block t named as
\* the first temporary: t is merged into a meta-node before the fix-up of the
\* outer conditional, whose exit b1 has three predecessors.
TemporaryNamedCond ==
    Function(<<BasicBlock("b0", Br("b1")),
               BasicBlock("b1", CondBr("b2", "b5")),
               BasicBlock("b2", CondBr(TemporaryName(0), "b1")),
               BasicBlock(TemporaryName(0), CondBr("b3", "b4")),
               BasicBlock("b3", Br("b4")),
               BasicBlock("b4", Br("b1")),
               BasicBlock("b5", Ret)>>)

\* A switch with a case that branches back to the block before it: b1 -> b2,
\* b2 -> {b1, b3, b4}.
SwitchBack ==
    Function(<<BasicBlock("b1", Br("b2")),
               BasicBlock("b2", Switch(<<"b1", "b3">>, "b4")),
               BasicBlock("b3", Ret),
               BasicBlock("b4", Ret)>>)

Scenarios ==
    {WhileLoop(TRUE), WhileLoop(FALSE), NestedLoop, IfElse, TwoBlockBodyLoop,
     Linear, SwitchFunction, IndirectBrFunction, InvokeFunction, DocExample,
     RepeatedDests, LongTrueBranch,
     TemporaryNamed(0), TemporaryNamed(1), TemporaryNamedCond,
     SwitchBack}

Inputs ==
    (UNION {FunctionsOf(n) : n \in 1..Len(BlockNames)})
        \cup Scenarios \cup UnsupportedFunctions

\* --------------------------------------------------------------- the pipeline

\* No call has been made on the UniqueVec of the client, which is new.
NoCall == [name |-> "new", arg |-> <<>>]
NoReturn == "()"
NoVec ==
    /\ unique_vec = <<>>
    /\ vec_before = <<>>
    /\ op = NoCall
    /\ ret = NoReturn
    /\ stamp = <<>>
    /\ inserted = <<>>
    /\ others_called = FALSE

\* CFRGroups::new has not been called.
Pending == [tag |-> "Pending", groups |-> <<>>]

Init ==
    /\ function \in Inputs
    /\ cfg = EmptyGraph(IntoNode(function.basic_blocks[1].name))
    /\ prims = <<>>
    /\ prim = None
    /\ pc = "new"
    /\ bundle = None
    /\ groups = Pending
    /\ created = <<>>
    /\ calls = 0
    /\ NoVec

\* ControlFlowGraph::new(function)
New ==
    /\ pc = "new"
    /\ LET r == ControlFlowGraph_new(function)
       IN  /\ cfg' = IF r.panic THEN cfg ELSE r.cfg
           /\ pc' = IF r.panic THEN "panic_new" ELSE "find_all"
    /\ UNCHANGED <<function, prims, prim, bundle, groups, created, calls, vec_vars>>

\* find_all, head of an iteration: CFAPrim::find_first(&mut cfg).unwrap()
FindFirst ==
    /\ pc = "find_all"
    /\ Len(cfg.nodes) > 1
    /\ prim' = CFAPrim_find_first(cfg)
    /\ pc' = IF IsSome(prim') THEN "insert_needed_node" ELSE "panic_unwrap"
    /\ UNCHANGED <<function, cfg, prims, bundle, groups, created, calls, vec_vars>>

\* prim.merge(&mut cfg), first part: the fix-up of the primitive.
InsertNeededNode ==
    /\ pc = "insert_needed_node"
    /\ LET fix == CFAPrim_insert_needed_node(cfg, Unwrap(prim))
       IN  /\ cfg' = fix.cfg
           /\ prim' = Some(fix.prim)
           /\ created' = created \o fix.names
    /\ pc' = "merge"
    /\ UNCHANGED <<function, prims, bundle, groups, calls, vec_vars>>

\* prim.merge(&mut cfg), second part, and prims.push(prim).
Merge ==
    /\ pc = "merge"
    /\ cfg' = MergeNodes(cfg, Unwrap(prim))
    /\ prims' = Push(prims, Unwrap(prim))
    /\ prim' = None
    /\ pc' = "find_all"
    /\ UNCHANGED <<function, bundle, groups, created, calls, vec_vars>>

\* find_all, end of the loop: Some(CFAPrims { entry, temps, prims })
Return ==
    /\ pc = "find_all"
    /\ ~ (Len(cfg.nodes) > 1)
    /\ bundle' = Some([entry |-> cfg.entry, temps |-> cfg.temps, prims |-> prims])
    /\ pc' = "recover"
    /\ UNCHANGED <<function, cfg, prims, prim, groups, created, calls, vec_vars>>

\* CFRGroups::new(&prims)
Recover ==
    /\ pc = "recover"
    /\ groups' = CFRGroups_new(Unwrap(bundle))
    /\ pc' = "done"
    /\ UNCHANGED <<function, cfg, prims, prim, bundle, created, calls, vec_vars>>

Next == New \/ FindFirst \/ InsertNeededNode \/ Merge \/ Return \/ Recover

Spec == Init /\ [][Next]_vars

\* ------------------------------------------- the pipeline, hash orders explicit

\* The functions reduced with every iteration order of the two maps: those of
\* fewer blocks than BlockNames has names, and three scenarios.
HashInputs ==
    (UNION {FunctionsOf(n) : n \in 1..(Len(BlockNames) - 1)})
        \cup {WhileLoop(TRUE), IfElse, TemporaryNamed(0)}

InitHash ==
    /\ function \in HashInputs
    /\ cfg = EmptyGraph(IntoNode(function.basic_blocks[1].name))
    /\ prims = <<>>
    /\ prim = None
    /\ pc = "new"
    /\ bundle = None
    /\ groups = Pending
    /\ created = <<>>
    /\ calls = 0
    /\ NoVec

\* prim.merge(&mut cfg), second part, and prims.push(prim): remove_node iterates
\* the two maps in whatever order their hasher gives.
MergeIn ==
    /\ pc = "merge"
    /\ \E preds_order \in Orders(DOMAIN cfg.preds), succs_order \in Orders(DOMAIN cfg.succs) :
           cfg' = MergeNodesIn(cfg, Unwrap(prim), preds_order, succs_order)
    /\ prims' = Push(prims, Unwrap(prim))
    /\ prim' = None
    /\ pc' = "find_all"
    /\ UNCHANGED <<function, bundle, groups, created, calls, vec_vars>>

NextHash == New \/ FindFirst \/ InsertNeededNode \/ MergeIn \/ Return \/ Recover

SpecHash == InitHash /\ [][NextHash]_vars

\* ------------------------------------------- a client of the graph's methods

\* A client makes at most MaxCalls calls on the graph.
MaxCalls == 3

\* b1 -> b2
Pair == Function(<<BasicBlock("b1", Br("b2")), BasicBlock("b2", Ret)>>)

\* The functions whose graph the client starts from: those of one block, and
\* one of two.
OpsInputs == FunctionsOf(1) \cup {Pair}

\* The nodes the client passes: those of the graph, and those of the temporary
\* names up to the one the counter stands at.
OpsNodes(g) ==
    {g.nodes[i] : i \in 1..Len(g.nodes)}
        \cup {IntoNode(TemporaryName(n)) : n \in 0..g.next_temp}

InitOps ==
    /\ function \in OpsInputs
    /\ cfg = ControlFlowGraph_new(function).cfg
    /\ prims = <<>>
    /\ prim = None
    /\ pc = "client"
    /\ bundle = None
    /\ groups = Pending
    /\ created = <<>>
    /\ calls = 0
    /\ NoVec

\* cfg.add_edge(from, to)
AddEdge ==
    /\ pc = "client" /\ calls < MaxCalls
    /\ \E from \in OpsNodes(cfg), to \in OpsNodes(cfg) : cfg' = add_edge(cfg, from, to)
    /\ calls' = calls + 1
    /\ UNCHANGED <<function, prims, prim, pc, bundle, groups, created, vec_vars>>

\* cfg.remove_node(node)
RemoveNode ==
    /\ pc = "client" /\ calls < MaxCalls
    /\ \E node \in OpsNodes(cfg) : cfg' = remove_node(cfg, node)
    /\ calls' = calls + 1
    /\ UNCHANGED <<function, prims, prim, pc, bundle, groups, created, vec_vars>>

\* cfg.insert_node(node, after, before)
InsertNode ==
    /\ pc = "client" /\ calls < MaxCalls
    /\ \E node \in OpsNodes(cfg), after \in OpsNodes(cfg), before \in OpsNodes(cfg) :
           cfg' = insert_node(cfg, node, after, before)
    /\ calls' = calls + 1
    /\ UNCHANGED <<function, prims, prim, pc, bundle, groups, created, vec_vars>>

\* cfg.create_temporary_node()
CreateTemporaryNode ==
    /\ pc = "client" /\ calls < MaxCalls
    /\ LET t == create_temporary_node(cfg)
       IN  /\ cfg' = t.cfg
           /\ created' = Append(created, t.name)
    /\ calls' = calls + 1
    /\ UNCHANGED <<function, prims, prim, pc, bundle, groups, vec_vars>>

\* CFAPrim::find_first(&cfg) has a primitive: prim.merge(&mut cfg)
MergePrim ==
    /\ pc = "client" /\ calls < MaxCalls
    /\ IsSome(CFAPrim_find_first(cfg))
    /\ LET m == merge(cfg, Unwrap(CFAPrim_find_first(cfg)))
       IN  /\ cfg' = m.cfg
           /\ created' = created \o m.names
    /\ calls' = calls + 1
    /\ UNCHANGED <<function, prims, prim, pc, bundle, groups, vec_vars>>

NextOps == AddEdge \/ RemoveNode \/ InsertNode \/ CreateTemporaryNode \/ MergePrim

SpecOps == InitOps /\ [][NextOps]_vars

\* ------------------------------------------- a client of UniqueVec's methods

\* A client makes at most MaxVecCalls calls on the vector.
MaxVecCalls == 5

\* The values the client passes.
Elements == {"x", "y", "z"}

InitVec ==
    /\ function = Pair
    /\ cfg = EmptyGraph(IntoNode(function.basic_blocks[1].name))
    /\ prims = <<>>
    /\ prim = None
    /\ pc = "vec"
    /\ bundle = None
    /\ groups = Pending
    /\ created = <<>>
    /\ calls = 0
    /\ NoVec

\* The entries of seq at the positions of `at`, in their order.
KeepAt(seq, at) ==
    LET kept[i \in 0..Len(seq)] ==
            IF i = 0 THEN <<>>
            ELSE IF i \in at THEN Append(kept[i - 1], seq[i]) ELSE kept[i - 1]
    IN  kept[Len(seq)]

\* The positions of the vector.
Positions == 1..Len(unique_vec)

\* The positions a call with the argument x removes: that of the first element
\* equal to x, if any.
FirstOf(x) ==
    IF IsSome(position(unique_vec, x)) THEN {Unwrap(position(unique_vec, x))} ELSE {}

\* The call `name`(`arg`) has left the vector `after` and returned `returned`;
\* `stamps` and `insertions` are the call numbers of its positions afterwards.
Called(name, arg, after, returned, stamps, insertions) ==
    /\ pc = "vec" /\ calls < MaxVecCalls
    /\ calls' = calls + 1
    /\ vec_before' = unique_vec
    /\ unique_vec' = after
    /\ op' = [name |-> name, arg |-> arg]
    /\ ret' = returned
    /\ stamp' = stamps
    /\ inserted' = insertions
    /\ others_called' = (others_called \/ name \in {"drain", "iter_mut"})
    /\ UNCHANGED graph_vars

\* vec.insert(x)
VecInsert ==
    \E x \in Elements :
        Called("insert", x, insert(unique_vec, x), insert_returns(unique_vec, x),
               IF contains(unique_vec, x) THEN stamp ELSE Append(stamp, calls + 1),
               IF contains(unique_vec, x) THEN inserted ELSE Append(inserted, calls + 1))

\* vec.remove(&x)
VecRemove ==
    \E x \in Elements :
        Called("remove", x, remove(unique_vec, x), remove_returns(unique_vec, x),
               KeepAt(stamp, Positions \ FirstOf(x)),
               KeepAt(inserted, Positions \ FirstOf(x)))

\* vec.take(&x)
VecTake ==
    \E x \in Elements :
        Called("take", x, take(unique_vec, x).vec, take(unique_vec, x).ret,
               KeepAt(stamp, Positions \ FirstOf(x)),
               KeepAt(inserted, Positions \ FirstOf(x)))

\* vec.replace(x): the argument of this call takes the place of the element
\* equal to it.
VecReplace ==
    \E x \in Elements :
        Called("replace", x, replace(unique_vec, x).vec, replace(unique_vec, x).ret,
               [i \in 1..Len(stamp) |-> IF i \in FirstOf(x) THEN calls + 1 ELSE stamp[i]],
               inserted)

\* vec.retain(|e| keep.contains(e))
VecRetain ==
    \E keep \in SUBSET Elements :
        Called("retain", keep, retain(unique_vec, keep), NoReturn,
               KeepAt(stamp, {i \in Positions : unique_vec[i] \in keep}),
               KeepAt(inserted, {i \in Positions : unique_vec[i] \in keep}))

\* vec.clear()
VecClear == Called("clear", <<>>, clear(unique_vec), NoReturn, <<>>, <<>>)

\* vec.drain(start..end), the iterator consumed or dropped; a range out of
\* bounds panics and ends the client.
VecDrain ==
    \E start \in 0..(Len(unique_vec) + 1), end \in 0..(Len(unique_vec) + 1) :
        LET d == drain(unique_vec, start, end)
        IN  IF d.panic
            THEN /\ pc = "vec" /\ calls < MaxVecCalls
                 /\ pc' = "panic_drain"
                 /\ calls' = calls + 1
                 /\ vec_before' = unique_vec
                 /\ op' = [name |-> "drain", arg |-> <<start, end>>]
                 /\ ret' = "panic"
                 /\ others_called' = TRUE
                 /\ UNCHANGED <<function, cfg, prims, prim, bundle, groups, created,
                                unique_vec, stamp, inserted>>
            ELSE Called("drain", <<start, end>>, d.vec, d.ret,
                        KeepAt(stamp, Positions \ ((start + 1)..end)),
                        KeepAt(inserted, Positions \ ((start + 1)..end)))

\* for e in &mut vec { ... *e = x ... }: the elements of some positions are
\* overwritten with x, in the slots earlier inserts made; no position is made.
VecIterMut ==
    \E x \in Elements, at \in SUBSET Positions :
        Called("iter_mut", <<at, x>>, iter_mut_write(unique_vec, at, x), NoReturn,
               [i \in 1..Len(stamp) |-> IF i \in at THEN calls + 1 ELSE stamp[i]],
               inserted)

NextVec ==
    \/ VecInsert \/ VecRemove \/ VecTake \/ VecReplace \/ VecRetain \/ VecClear
    \/ VecDrain \/ VecIterMut

SpecVec == InitVec /\ [][NextVec]_vars

\* --------------------------------------------------------------- claims

FirstBlock == function.basic_blocks[1].name

\* The nodes a path from the entry reaches without entering `avoid`.
RECURSIVE ReachAvoiding(_, _, _)
ReachAvoiding(g, avoid, seen) ==
    LET next == {s \in DOMAIN g.preds :
                    /\ s # avoid
                    /\ s \notin seen
                    /\ \E n \in seen : n \in DOMAIN g.succs /\ contains(g.succs[n], s)}
    IN  IF next = {} THEN seen ELSE ReachAvoiding(g, avoid, seen \cup next)

\* Every path from the entry to `to` passes through `through`.
EveryPathThrough(g, through, to) ==
    \/ through = to
    \/ to \notin ReachAvoiding(g, through, IF g.entry = through THEN {} ELSE {g.entry})

NodeSet(g) == {g.nodes[i] : i \in 1..Len(g.nodes)}

\* C1: dominates(through, to) is true exactly when every path from the entry of
\* the graph to `to` passes through `through`, for every pair of nodes.
C1_DominatesIsDominance ==
    \A through \in NodeSet(cfg), to \in NodeSet(cfg) :
        dominates(cfg, through, to) <=> EveryPathThrough(cfg, through, to)

\* find_all has stopped on a graph of more than one node in which no primitive
\* matches.
Irreducible ==
    /\ pc \notin {"new", "panic_new", "find_all", "insert_needed_node", "merge"}
    /\ Len(cfg.nodes) > 1
    /\ CFAPrim_find_first(cfg) = None

\* C2: when no primitive matches a graph of more than one node, find_all returns
\* None to its caller (no bundle, no abort).
C2_IrreducibleReturnsNone ==
    Irreducible => (pc # "panic_unwrap" /\ bundle = None)

\* C3: when find_all has returned a bundle, the graph has exactly one node, and
\* the from_pred of that node is the name of the first basic block.
C3_OneNodeLeft ==
    IsSome(bundle) =>
        /\ Len(cfg.nodes) = 1
        /\ from_pred(cfg.nodes[1]) = FirstBlock

\* C6: after insert_needed_node has run on the primitive find_first returned,
\* running it again changes neither the graph nor the primitive, and creates
\* no temporary.
C6_FixupIdempotent ==
    pc = "merge" =>
        CFAPrim_insert_needed_node(cfg, Unwrap(prim))
            = [cfg |-> cfg, prim |-> Unwrap(prim), names |-> <<>>]

\* A fix-up has just spliced a temporary in.
C6_Witness ==
    /\ pc = "merge"
    /\ Unwrap(prim).kind = "OnewayConditional"
    /\ created # <<>>
    /\ Unwrap(prim).exit = IntoNode(created[Len(created)])

\* C8: at every iteration of find_all the from_pred of the entry of the graph is
\* the name of the first basic block, and so is that of the entry of the bundle.
C8_EntryFromPred ==
    /\ from_pred(cfg.entry) = FirstBlock
    /\ IsSome(bundle) => from_pred(Unwrap(bundle).entry) = FirstBlock

\* The entry of the returned bundle is a meta-node: merges went through the entry.
C8_Witness ==
    /\ IsSome(bundle)
    /\ Unwrap(bundle).entry # IntoNode(FirstBlock)
    /\ Len(prims) > 1

Block(name) == [kind |-> "Block", name |-> name]

\* C9: for the while loop b1 -> b2, b2 -> {b3, b4}, b3 -> b2, in both orders of
\* the successors of b2, find_all records PreconditionLoop{b2, b3, b4} and the
\* groups are Block(b1), PreconditionLoop{cond [b2], body [b3]}, Block(b4);
\* neither the constructor nor find_all panics on the way.
C9_WhileLoop ==
    function \in {WhileLoop(TRUE), WhileLoop(FALSE)} =>
      /\ pc \notin {"panic_new", "panic_unwrap"}
      /\ pc = "done" =>
        /\ \E i \in 1..Len(prims) :
              prims[i] = [kind |-> "PreconditionLoop", cond |-> IntoNode("b2"),
                          body |-> IntoNode("b3"), exit |-> IntoNode("b4")]
        /\ groups = Groups(<<Block("b1"),
                             [kind |-> "PreconditionLoop",
                              cond |-> <<Block("b2")>>, body |-> <<Block("b3")>>],
                             Block("b4")>>)

C9_Witness == function = WhileLoop(FALSE) /\ pc = "done"

\* C10: for the while loop whose body is an if-else with both branches jumping
\* back to the loop head, the fix-up of the TwowayConditional creates exactly one
\* temporary, which is in the temps of the bundle, and the groups are Block(b0),
\* a PreconditionLoop on b1 whose body is the TwowayConditional on b2, Block(b5);
\* neither the constructor nor find_all panics on the way.
C10_NestedLoop ==
    function = NestedLoop =>
      /\ pc \notin {"panic_new", "panic_unwrap"}
      /\ pc = "done" =>
        /\ Len(created) = 1
        /\ contains(Unwrap(bundle).temps, created[1])
        /\ \E i \in 1..Len(prims) :
              /\ prims[i].kind = "TwowayConditional"
              /\ prims[i].cond = IntoNode("b2")
              /\ prims[i].exit = IntoNode(created[1])
        /\ groups = Groups(<<Block("b0"),
                             [kind |-> "PreconditionLoop",
                              cond |-> <<Block("b1")>>,
                              body |-> <<[kind |-> "TwowayConditional",
                                          cond |-> <<Block("b2")>>,
                                          body_true |-> <<Block("b3")>>,
                                          body_false |-> <<Block("b4")>>]>>],
                             Block("b5")>>)

C10_Witness == function = NestedLoop /\ pc = "done" /\ groups.tag = "Some"

\* The graph g has the edge u -> v in succs, in preds.
InSuccs(g, u, v) == u \in DOMAIN g.succs /\ contains(g.succs[u], v)
InPreds(g, u, v) == v \in DOMAIN g.preds /\ contains(g.preds[v], u)

\* Every node the graph mentions: in nodes, as a key or in a list of a map.
Mentioned(g) ==
    NodeSet(g) \cup DOMAIN g.preds \cup DOMAIN g.succs
        \cup UNION {{g.preds[k][i] : i \in 1..Len(g.preds[k])} : k \in DOMAIN g.preds}
        \cup UNION {{g.succs[k][i] : i \in 1..Len(g.succs[k])} : k \in DOMAIN g.succs}

\* C4: whatever add_edge, remove_node, insert_node, create_temporary_node and
\* merge calls have been made, v is in succs[u] exactly when u is in preds[v],
\* for every pair of nodes u, v.
C4_EdgeSymmetry ==
    \A u \in Mentioned(cfg), v \in Mentioned(cfg) :
        InSuccs(cfg, u, v) <=> InPreds(cfg, u, v)

\* The client has made calls, and the graph has an edge from a temporary it
\* spliced in and an edge of a merged node.
C4_Witness ==
    /\ calls >= 2
    /\ \E u \in Mentioned(cfg), v \in Mentioned(cfg) :
           InSuccs(cfg, u, v) /\ (from_pred(u) # to_succ(u) \/ contains(cfg.temps, from_pred(u)))

\* The result of find_all on the graph of the function, as one function of it.
Reference == find_all(ControlFlowGraph_new(function).cfg, <<>>)

\* C5: whatever order the maps of the graph are iterated in, the reduction of a
\* function ends the same way: the primitives, the temporaries and the entry of
\* the bundle, and the groups recovered from it, are those of every other run on
\* the same function; so is a panic of find_all.
C5_Deterministic ==
    /\ pc = "panic_unwrap" => Reference.tag = "Panic"
    /\ IsSome(bundle) =>
           /\ Reference.tag = "Some"
           /\ Unwrap(bundle) = Reference.bundle
    /\ pc = "done" => groups = CFRGroups_new(Reference.bundle)

\* A reduction of several merges, one of them with a temporary, has ended.
C5_Witness ==
    /\ pc = "done"
    /\ Len(prims) >= 2
    /\ created # <<>>
    /\ groups.tag = "Some"

\* The numbers n with TemporaryName(n) = name, among those the counter passed.
NumbersOf(g, name) == {n \in 0..(g.next_temp - 1) : TemporaryName(n) = name}

\* C7, in every state: the names create_temporary_node has returned are of the
\* form @DECOMP_TEMPORARY_<n>, n from 0 on and strictly increasing in the
\* order of the calls (so the names are pairwise distinct), and each is in temps.
C7_Names ==
    /\ \A i \in 1..Len(created) :
           /\ NumbersOf(cfg, created[i]) # {}
           /\ \E n \in NumbersOf(cfg, created[i]) :
                  created[i] = "@DECOMP_TEMPORARY_" \o ToString(n)
           /\ contains(cfg.temps, created[i])
    /\ \A i \in 1..Len(created), j \in 1..Len(created) :
           i < j => /\ created[i] # created[j]
                    /\ \A n \in NumbersOf(cfg, created[i]), m \in NumbersOf(cfg, created[j]) :
                           n < m

\* C7, at every call: the name returned is not the name of a node the graph had
\* when the call was made, and every number the counter passed over is.
C7_Fresh ==
    created' # created =>
        /\ Len(created') = Len(created) + 1
        /\ SubSeq(created', 1, Len(created)) = created
        /\ ~ contains(cfg.nodes, IntoNode(created'[Len(created')]))
        /\ \A n \in cfg.next_temp..(cfg'.next_temp - 2) :
               contains(cfg.nodes, IntoNode(TemporaryName(n)))

\* C7: the names returned by the create_temporary_node calls on one graph are
\* pairwise distinct, of the form @DECOMP_TEMPORARY_<n> with n strictly
\* increasing from 0 on, each recorded in temps, and none is the name of a node
\* of the graph at the time of its creation.
C7_TemporaryNames == [] C7_Names /\ [][C7_Fresh]_vars

\* Two temporaries have been created, the second after the counter passed over
\* the name of a node of the graph.
C7_Witness ==
    /\ Len(created) >= 2
    /\ cfg.next_temp > Len(created)

\* C11: for the if-else b1 -> {b2, b3}, b2 -> b4, b3 -> b4, find_all records the
\* single primitive TwowayConditional{b1, b2, b3, b4}, no temporary is created,
\* and the groups are TwowayConditional{cond [b1], body_true [b2], body_false
\* [b3]}, Block(b4); neither the constructor nor find_all panics on the way.
C11_IfElse ==
    function = IfElse =>
      /\ pc \notin {"panic_new", "panic_unwrap"}
      /\ created = <<>>
      /\ cfg.temps = <<>>
      /\ pc = "done" =>
        /\ prims = <<[kind |-> "TwowayConditional", cond |-> IntoNode("b1"),
                      body_a |-> IntoNode("b2"), body_b |-> IntoNode("b3"),
                      exit |-> IntoNode("b4")]>>
        /\ Unwrap(bundle).prims = prims
        /\ Unwrap(bundle).temps = <<>>
        /\ groups = Groups(<<[kind |-> "TwowayConditional",
                              cond |-> <<Block("b1")>>,
                              body_true |-> <<Block("b2")>>,
                              body_false |-> <<Block("b3")>>],
                             Block("b4")>>)

C11_Witness == function = IfElse /\ pc = "done" /\ Len(prims) = 1

\* C12: for the if-return b1 -> {b2, b3}, b2 and b3 without successors, find_all
\* records OnewayReturnConditional{b1, b2, b3} and the groups are
\* OnewayReturnConditional{cond [b1], body [b2]}, Block(b3); neither the
\* constructor nor find_all panics on the way.
C12_IfReturn ==
    function = IfReturn =>
      /\ pc \notin {"panic_new", "panic_unwrap"}
      /\ pc = "done" =>
        /\ prims = <<[kind |-> "OnewayReturnConditional", cond |-> IntoNode("b1"),
                      body |-> IntoNode("b2"), exit |-> IntoNode("b3")]>>
        /\ groups = Groups(<<[kind |-> "OnewayReturnConditional",
                              cond |-> <<Block("b1")>>,
                              body |-> <<Block("b2")>>],
                             Block("b3")>>)

C12_Witness == function = IfReturn /\ pc = "done" /\ groups.tag = "Some"

\* C13: for the chain b1 -> b2 -> ... -> bn of n >= 1 blocks, every primitive
\* find_all records is a StatementSequence (there are n - 1) and the groups are
\* Block(b1), ..., Block(bn) in the order of the chain; neither the constructor
\* nor find_all panics on the way.
C13_Linear ==
    \A n \in 1..Len(BlockNames) :
        function = Chain(n) =>
          /\ pc \notin {"panic_new", "panic_unwrap"}
          /\ \A i \in 1..Len(prims) : prims[i].kind = "StatementSequence"
          /\ pc = "done" =>
            /\ Len(prims) = n - 1
            /\ groups = Groups([i \in 1..n |-> Block(BlockName(i))])

C13_Witness ==
    function = Chain(Len(BlockNames)) /\ pc = "done" /\ Len(prims) = Len(BlockNames) - 1

\* The names of the Block leaves of a sequence of groups, at any depth.
RECURSIVE Leaves(_)
Leaves(gs) ==
    UNION {LET group == gs[i]
           IN  CASE group.kind = "Block" -> {group.name}
                 [] group.kind = "PostconditionLoop" -> Leaves(group.cond)
                 [] group.kind = "TwowayConditional" ->
                        Leaves(group.cond) \cup Leaves(group.body_true)
                            \cup Leaves(group.body_false)
                 [] OTHER -> Leaves(group.cond) \cup Leaves(group.body)
           : i \in 1..Len(gs)}

\* The names of the blocks of the function.
BlocksOf(f) == {f.basic_blocks[i].name : i \in 1..Len(f.basic_blocks)}

\* No block of the function has a name create_temporary_node could return.
NoTemporaryNamed(f) ==
    \A n \in 0..(cfg.next_temp + Len(f.basic_blocks)) : TemporaryName(n) \notin BlocksOf(f)

\* C14: when the groups of a bundle have been recovered for a function none of
\* whose blocks is named as a temporary, no Block leaf of the group tree, at any
\* depth, carries a name of the temps of the bundle: every leaf is a block of
\* the function.
C14_NoTemporaryLeaf ==
    (pc = "done" /\ groups.tag = "Some" /\ NoTemporaryNamed(function)) =>
        \A name \in Leaves(groups.groups) :
            /\ ~ contains(Unwrap(bundle).temps, name)
            /\ name \in BlocksOf(function)

\* Groups have been recovered from a bundle with a temporary that a primitive
\* ends in, with blocks nested in a group.
C14_Witness ==
    /\ pc = "done" /\ groups.tag = "Some" /\ NoTemporaryNamed(function)
    /\ Unwrap(bundle).temps # <<>>
    /\ \E i \in 1..Len(prims) : contains(Unwrap(bundle).temps, from_pred(prims[i].exit))
    /\ \E i \in 1..Len(groups.groups) : groups.groups[i].kind # "Block"

\* The vector without the elements equal to x, the others in their order.
Without(vec, x) == LET Keep(y) == y # x IN SelectSeq(vec, Keep)

\* g1 is g without the node x: x is not in nodes, is no key of preds or succs
\* and is in no list of them; the other nodes, keys and lists are as they were.
Removed(g, g1, x) ==
    /\ ~ contains(g1.nodes, x)
    /\ x \notin DOMAIN g1.preds /\ x \notin DOMAIN g1.succs
    /\ \A k \in DOMAIN g1.preds : ~ contains(g1.preds[k], x)
    /\ \A k \in DOMAIN g1.succs : ~ contains(g1.succs[k], x)
    /\ g1.nodes = Without(g.nodes, x)
    /\ DOMAIN g1.preds = DOMAIN g.preds \ {x}
    /\ DOMAIN g1.succs = DOMAIN g.succs \ {x}
    /\ \A k \in DOMAIN g1.preds : g1.preds[k] = Without(g.preds[k], x)
    /\ \A k \in DOMAIN g1.succs : g1.succs[k] = Without(g.succs[k], x)

\* C15: a call remove_node(x), on any graph the client has built and for any
\* node x, leaves a graph in which x is not in nodes, is not a key of preds or
\* succs and is in no predecessor or successor list; the edges between the
\* other nodes are unchanged.
C15_RemoveNode ==
    [][\A x \in OpsNodes(cfg) :
           (calls' = calls + 1 /\ cfg' = remove_node(cfg, x)) => Removed(cfg, cfg', x)]_vars

\* b1 has been removed from the graph b1 -> b2 -> temporary: the edge between
\* the two other nodes is still there.
C15_Witness ==
    /\ function = Pair
    /\ cfg.nodes = <<IntoNode("b2"), IntoNode(TemporaryName(0))>>
    /\ InSuccs(cfg, IntoNode("b2"), IntoNode(TemporaryName(0)))
    /\ InPreds(cfg, IntoNode("b2"), IntoNode(TemporaryName(0)))
    /\ IntoNode("b1") \notin Mentioned(cfg)

\* The nodes a path from the entry reaches.
Reachable(g) == ReachAvoiding(g, None, {g.entry})

\* C16: in every graph of the reduction, with or without cycles, dominates(n, n)
\* is true for every node n, and dominates(entry, n) is true for every node n a
\* path from the entry reaches.
C16_DominatesSelfAndEntry ==
    /\ \A n \in NodeSet(cfg) \cup {cfg.entry} : dominates(cfg, n, n)
    /\ \A n \in Reachable(cfg) : dominates(cfg, cfg.entry, n)

\* The graph of the while loop, with its cycle b2 -> b3 -> b2, every node
\* reachable from the entry.
C16_Witness ==
    /\ function = WhileLoop(TRUE)
    /\ pc = "find_all" /\ prims = <<>>
    /\ NodeSet(cfg) \subseteq Reachable(cfg)
    /\ IntoNode("b2") \in ReachAvoiding(cfg, None, {IntoNode("b3")})
    /\ IntoNode("b3") \in ReachAvoiding(cfg, None, {IntoNode("b2")})

\* The destinations a terminator names, in the order of the claim.
Targets(term) ==
    CASE term.kind = "Br" -> <<term.dest>>
      [] term.kind = "CondBr" -> <<term.true_dest, term.false_dest>>
      [] term.kind = "Switch" -> Append(term.dests, term.default_dest)
      [] term.kind = "IndirectBr" -> term.possible_dests
      [] OTHER -> <<>>

\* The sequence without the repetitions of its elements.
RECURSIVE Dedup(_)
Dedup(seq) ==
    IF seq = <<>> THEN <<>>
    ELSE LET front == Dedup(Front(seq))
         IN  IF contains(front, Last(seq)) THEN front ELSE Append(front, Last(seq))

\* ControlFlowGraph::new has returned and find_all has not merged yet.
Constructed == pc = "find_all" /\ prims = <<>>

\* C17: after ControlFlowGraph::new the entry is the first block, and the
\* successor list of every block is the list of the destinations of its
\* terminator without repetitions, in the order Br: dest; CondBr: true_dest,
\* false_dest; Switch: the case destinations, then the default; IndirectBr: the
\* possible destinations; a Ret or Unreachable block has no successor.
C17_SuccessorOrder ==
    Constructed =>
        /\ cfg.entry = IntoNode(FirstBlock)
        /\ \A i \in 1..Len(function.basic_blocks) :
               LET block == function.basic_blocks[i]
                   expected == [j \in 1..Len(Dedup(Targets(block.term))) |->
                                   IntoNode(Dedup(Targets(block.term))[j])]
                   succs == Get(cfg.succs, IntoNode(block.name))
               IN  IF expected = <<>> THEN succs = None ELSE succs = Some(expected)

\* The graph of a function whose Switch, CondBr and IndirectBr name a
\* destination more than once.
C17_Witness ==
    /\ Constructed
    /\ function = RepeatedDests
    /\ cfg.succs[IntoNode("b1")] = <<IntoNode("b2"), IntoNode("b3")>>
    /\ cfg.succs[IntoNode("b4")] = <<IntoNode("b4")>>

\* The function has a block whose terminator is Invoke, Resume, CleanupRet,
\* CatchRet, CatchSwitch or CallBr.
HasUnsupported(f) ==
    \E i \in 1..Len(f.basic_blocks) :
        f.basic_blocks[i].term.kind \in
            {"Invoke", "Resume", "CleanupRet", "CatchRet", "CatchSwitch", "CallBr"}

\* C18: for a function with a block whose terminator is Invoke, Resume,
\* CleanupRet, CatchRet, CatchSwitch or CallBr, whatever the other blocks are,
\* ControlFlowGraph::new panics: once it has run the caller is in the panic, and
\* there is never a graph to reduce, a bundle or groups.
C18_UnsupportedPanics ==
    HasUnsupported(function) =>
        /\ pc \in {"new", "panic_new"}
        /\ cfg = EmptyGraph(IntoNode(FirstBlock))
        /\ prims = <<>> /\ bundle = None /\ groups = Pending

\* The constructor has panicked on a CallBr in the last block, after blocks
\* whose edges it had added.
C18_Witness ==
    /\ pc = "panic_new"
    /\ function = WithTerminator("CallBr", Len(BlockNames) - 1)

\* C19: whatever insert, remove, take, replace, retain and clear calls have been
\* made, and no other call, the vector has no two equal elements, and its
\* elements are in the order of the insertions they survive from; insert(x)
\* returns true and appends x when x was absent, and returns false and leaves
\* the vector unchanged otherwise.
C19_UniqueOrdered ==
    /\ ~ others_called =>
           \A i \in 1..Len(unique_vec), j \in 1..Len(unique_vec) :
               i < j => /\ unique_vec[i] # unique_vec[j]
                        /\ inserted[i] < inserted[j]
    /\ op.name = "insert" =>
           IF \E i \in 1..Len(vec_before) : vec_before[i] = op.arg
           THEN ret = FALSE /\ unique_vec = vec_before
           ELSE ret = TRUE /\ unique_vec = vec_before \o <<op.arg>>

\* An insert has been refused, on a vector of two elements the first of which
\* has been replaced since its insertion, no call but the six having been made.
C19_Witness ==
    /\ ~ others_called
    /\ op.name = "insert" /\ ret = FALSE
    /\ unique_vec = <<"y", "x">>
    /\ stamp[1] > inserted[1]
    /\ stamp[1] > inserted[2]

\* C20: after replace(x) the vector contains x, whether or not an equal element
\* was there before, and the call has returned the replaced element, None when
\* no equal element was there.
C20_ReplaceAdds ==
    op.name = "replace" =>
        /\ \E i \in 1..Len(unique_vec) : unique_vec[i] = op.arg
        /\ ret = IF \E i \in 1..Len(vec_before) : vec_before[i] = op.arg
                 THEN Some(op.arg) ELSE None

\* The nodes with exactly two successors, themselves and another node.
SelfLoopHeads(g) ==
    {c \in NodeSet(g) :
        /\ c \in DOMAIN g.succs
        /\ Len(g.succs[c]) = 2
        /\ contains(g.succs[c], c)}

\* The successor of c that is not c.
OtherSucc(g, c) == IF g.succs[c][1] = c THEN g.succs[c][2] ELSE g.succs[c][1]

\* C21: when PostconditionLoop::find_first returns a primitive whose cond is a
\* node c with exactly two successors, c itself and x # c, its exit is x, be the
\* self-edge of c first or second in the successor list; the exit of a returned
\* PostconditionLoop is never its cond.
C21_SelfLoopExit ==
    LET found == CFAPostconditionLoop_find_first(cfg)
    IN  IsSome(found) =>
            /\ Unwrap(found).exit # Unwrap(found).cond
            /\ Unwrap(found).cond \in SelfLoopHeads(cfg) =>
                   Unwrap(found).exit = OtherSucc(cfg, Unwrap(found).cond)

\* N = (entry.from_pred, exit.to_succ)
NewNode(p) == CFGNode(from_pred(CFAPrim_entry(p)), to_succ(CFAPrim_exit(p)))

\* The constituent nodes of a primitive, as a set.
Constituents(p) == {CFAPrim_nodes(p)[i] : i \in 1..Len(CFAPrim_nodes(p))}

\* g1 is g with the nodes of p merged into N: every edge of g between a
\* constituent and a node outside is in g1 with N for the constituent, in succs
\* and in preds, and no constituent other than N is mentioned by g1.
Preserved(g, g1, p) ==
    /\ \A c \in Constituents(p), u \in Mentioned(g) \ Constituents(p) :
           /\ InSuccs(g, u, c) => (InSuccs(g1, u, NewNode(p)) /\ InPreds(g1, u, NewNode(p)))
           /\ InSuccs(g, c, u) => (InSuccs(g1, NewNode(p), u) /\ InPreds(g1, NewNode(p), u))
    /\ \A c \in Constituents(p) \ {NewNode(p)} : c \notin Mentioned(g1)

\* C22: every merge of find_all keeps the edges between the primitive and the
\* rest of the graph: each edge that joins a constituent to a node outside just
\* before the merge, the fix-up done, is there after it with N = (entry.from_pred,
\* exit.to_succ) for the constituent, and no constituent is left in the graph.
C22_MergePreservesEdges ==
    [][(pc = "merge" /\ pc' = "find_all") => Preserved(cfg, cfg', Unwrap(prim))]_vars

\* The groups of a sequence of groups, at any depth.
RECURSIVE GroupsIn(_)
GroupsIn(gs) ==
    UNION {LET group == gs[i]
           IN  {group} \cup
               CASE group.kind = "Block" -> {}
                 [] group.kind = "PostconditionLoop" -> GroupsIn(group.cond)
                 [] group.kind = "TwowayConditional" ->
                        GroupsIn(group.cond) \cup GroupsIn(group.body_true)
                            \cup GroupsIn(group.body_false)
                 [] OTHER -> GroupsIn(group.cond) \cup GroupsIn(group.body)
           : i \in 1..Len(gs)}

\* The block a sequence of groups starts with: the first group, or the first
\* block of its cond.
RECURSIVE FirstBlockOf(_)
FirstBlockOf(gs) ==
    IF gs[1].kind = "Block" THEN gs[1].name ELSE FirstBlockOf(gs[1].cond)

\* The terminator of the block `name` of the function f.
TerminatorOf(f, name) ==
    LET i == CHOOSE j \in 1..Len(f.basic_blocks) : f.basic_blocks[j].name = name
    IN  f.basic_blocks[i].term

\* C23: in every TwowayConditional group of the recovered tree whose cond is a
\* block ending in a CondBr, body_true starts with the block the true_dest of
\* that CondBr names and body_false with the block its false_dest names,
\* whatever was merged into the branches before the conditional was recognised.
C23_BranchSides ==
    (pc = "done" /\ groups.tag = "Some") =>
        \A group \in GroupsIn(groups.groups) :
            (/\ group.kind = "TwowayConditional"
             /\ group.cond[1].kind = "Block"
             /\ group.cond[1].name \in BlocksOf(function)
             /\ TerminatorOf(function, group.cond[1].name).kind = "CondBr") =>
                LET term == TerminatorOf(function, group.cond[1].name)
                IN  /\ group.body_true # <<>> =>
                           FirstBlockOf(group.body_true) = term.true_dest
                    /\ group.body_false # <<>> =>
                           FirstBlockOf(group.body_false) = term.false_dest

\* C24: for the while loop with a two-block body after an entry block (b1 -> b2,
\* b2 -> {b3, b5}, b3 -> b4, b4 -> b2) neither the constructor nor find_all
\* panics, whatever temporaries the fix-ups splice in: find_all returns a bundle
\* and the groups are Block(b1), PreconditionLoop{cond [b2], body [b3, b4]},
\* Block(b5).
C24_TwoBlockBodyLoop ==
    function = TwoBlockBodyLoop =>
      /\ pc \notin {"panic_new", "panic_unwrap"}
      /\ pc = "done" =>
        /\ IsSome(bundle)
        /\ groups = Groups(<<Block("b1"),
                             [kind |-> "PreconditionLoop",
                              cond |-> <<Block("b2")>>,
                              body |-> <<Block("b3"), Block("b4")>>],
                             Block("b5")>>)

\* The names of the Block leaves of a sequence of groups, at any depth, in the
\* order of the tree and with their repetitions.
RECURSIVE LeafSeq(_)
LeafSeq(gs) ==
    IF gs = <<>> THEN <<>>
    ELSE LET group == Head(gs)
             here == CASE group.kind = "Block" -> <<group.name>>
                       [] group.kind = "PostconditionLoop" -> LeafSeq(group.cond)
                       [] group.kind = "TwowayConditional" ->
                              LeafSeq(group.cond) \o LeafSeq(group.body_true)
                                  \o LeafSeq(group.body_false)
                       [] OTHER -> LeafSeq(group.cond) \o LeafSeq(group.body)
         IN  here \o LeafSeq(Tail(gs))

\* The number of Block leaves that carry the name.
LeafCount(gs, name) ==
    Cardinality({i \in 1..Len(LeafSeq(gs)) : LeafSeq(gs)[i] = name})

\* The graph ControlFlowGraph::new made of the function.
Original == ControlFlowGraph_new(function).cfg

\* The names of the blocks of the original graph: its nodes and its entry.
OriginalBlocks == {from_pred(n) : n \in NodeSet(Original) \cup {Original.entry}}

\* C25: when every node of the graph of the function is reachable from the
\* entry and both find_all and CFRGroups::new have returned a value, every block
\* of the graph is the name of exactly one Block leaf of the group tree, and
\* every Block leaf names a block of the graph.
C25_EveryBlockOnce ==
    (/\ pc = "done" /\ groups.tag = "Some"
     /\ NodeSet(Original) \subseteq Reachable(Original)) =>
        /\ \A name \in OriginalBlocks : LeafCount(groups.groups, name) = 1
        /\ \A i \in 1..Len(LeafSeq(groups.groups)) :
               LeafSeq(groups.groups)[i] \in OriginalBlocks

\* The nodes that can be the entry of a primitive: their to_succ is no temporary.
Eligible(g) == {n \in NodeSet(g) : ~ contains(g.temps, to_succ(n))}

\* The nodes with an edge to themselves.
SelfLoops(g) == {n \in NodeSet(g) : InSuccs(g, n, n)}

\* What every iteration of find_all makes smaller: the nodes, those of them
\* that can be an entry, and the self-edges, counted together.
Variant(g) == Len(g.nodes) + Cardinality(Eligible(g)) + Cardinality(SelfLoops(g))

\* find_all has left its loop: it has returned, or the unwrap has panicked.
LoopLeft == IsSome(bundle) \/ pc = "panic_unwrap"

\* C26: find_all cannot run forever. Every iteration (the fix-up, which may add
\* a node, and the merge) leaves a graph whose Variant is strictly smaller than
\* before the iteration, so the number of iterations made is at most what the
\* Variant has lost since the graph of the function; and the loop is left only
\* with a graph of at most one node (a bundle is returned) or with a graph of
\* more nodes in which no primitive matches.
C26_FindAllTerminates ==
    /\ pc = "insert_needed_node" =>
           Variant(merge(cfg, Unwrap(prim)).cfg) < Variant(cfg)
    /\ pc = "find_all" => Len(prims) + Variant(cfg) <= Variant(Original)
    /\ IsSome(bundle) => Len(cfg.nodes) <= 1
    /\ pc = "panic_unwrap" => (Len(cfg.nodes) > 1 /\ CFAPrim_find_first(cfg) = None)

\* The loop has been left after three iterations or more, one of them with a
\* fix-up that added a node, with a bundle.
C26_Witness ==
    /\ LoopLeft /\ IsSome(bundle)
    /\ Len(prims) >= 3
    /\ created # <<>>

\* The primitive handle finds for the node `at` has a constituent with the
\* identity of `at`: handling that constituent finds the same primitive again.
Recurs(b, at) ==
    LET found == FindPrim(b.prims, at, 1)
    IN  /\ IsSome(found)
        /\ \E c \in Constituents(Unwrap(found)) :
               from_pred(c) = from_pred(at) /\ to_succ(c) = to_succ(at)

\* The nodes handle is called with, from the node `at` on; a node that Recurs is
\* not descended into.
RECURSIVE Handled(_, _)
Handled(b, at) ==
    LET found == FindPrim(b.prims, at, 1)
    IN  IF IsSome(found) /\ ~ Recurs(b, at)
        THEN {at} \cup UNION {Handled(b, c) : c \in Constituents(Unwrap(found))}
        ELSE {at}

\* C27: CFRGroups::new ends on every bundle find_all returns: no node handle is
\* called with, from the entry of the bundle on, has a primitive with a
\* constituent of the same (from_pred, to_succ) as the node, and the recursion
\* never calls itself with a node it is already handling.
C27_RecoveryTerminates ==
    /\ IsSome(bundle) =>
           \A at \in Handled(Unwrap(bundle), Unwrap(bundle).entry) :
               ~ Recurs(Unwrap(bundle), at)
    /\ pc = "done" => groups.tag # "Overflow"

\* One iteration of the loop of OnewayReturnConditional::find_first: the node
\* cond has two successors and is_valid accepts them in one of the two orders.
MatchesAt(g, cond) ==
    /\ cond \in DOMAIN g.succs
    /\ Len(g.succs[cond]) = 2
    /\ \/ CFAOnewayReturnConditional_is_valid(g, cond, g.succs[cond][1], g.succs[cond][2])
       \/ CFAOnewayReturnConditional_is_valid(g, cond, g.succs[cond][2], g.succs[cond][1])

\* The shape of an if-return at cond with the body and the exit given: the two
\* are the successors of cond, the body has cond as its only predecessor and no
\* successor, the temporaries are where they may be, and cond dominates none
\* of its predecessors.
IfReturnShape(g, cond, body, exit) ==
    /\ cond \in DOMAIN g.succs
    /\ Len(g.succs[cond]) = 2
    /\ contains(g.succs[cond], body) /\ contains(g.succs[cond], exit)
    /\ body # exit
    /\ Get(g.preds, body) = Some(<<cond>>)
    /\ Get(g.succs, body) \in {None, Some(<<>>)}
    /\ ~ contains(g.temps, to_succ(cond))
    /\ ~ contains(g.temps, from_pred(exit))
    /\ cond \in DOMAIN g.preds =>
           \A i \in 1..Len(g.preds[cond]) :
               ~ EveryPathThrough(g, cond, g.preds[cond][i])

\* C28: in every graph of the reduction, OnewayReturnConditional::find_first
\* accepts a node cond exactly when cond has two successors body and exit, the
\* body has cond as its only predecessor and no successor, the hygiene of the
\* temporaries holds, and no predecessor of cond is dominated by cond (every
\* path from the entry to it passes through cond); so a cond with a predecessor
\* it does not dominate is accepted.
C28_IfReturnMatch ==
    \A cond \in NodeSet(cfg) :
        MatchesAt(cfg, cond) <=>
            \E body \in NodeSet(cfg), exit \in NodeSet(cfg) :
                IfReturnShape(cfg, cond, body, exit)

\* What the find_first of each of the six variants returns on the graph g.
FirstOfEach(g) ==
    {CFAPreconditionLoop_find_first(g), CFAPostconditionLoop_find_first(g),
     CFAOnewayConditional_find_first(g), CFAOnewayReturnConditional_find_first(g),
     CFATwowayConditional_find_first(g), CFAStatementSequence_find_first(g)}

\* The primitives among them.
Found(g) == {Unwrap(found) : found \in {o \in FirstOfEach(g) : IsSome(o)}}

\* C29: in every graph of the reduction, the entry of a primitive that the
\* find_first of any variant returns dominates each constituent of the
\* primitive, its exit included: every path from the entry of the graph to the
\* constituent passes through the entry of the primitive.
C29_EntryDominates ==
    \A p \in Found(cfg) :
        \A c \in Constituents(p) : EveryPathThrough(cfg, CFAPrim_entry(p), c)

\* The entry of p does not end in a temporary of g and its exit does not start
\* in one.
Hygienic(g, p) ==
    /\ ~ contains(g.temps, to_succ(CFAPrim_entry(p)))
    /\ ~ contains(g.temps, from_pred(CFAPrim_exit(p)))

\* C30: in every graph of the reduction, no primitive that the find_first of
\* any variant returns has an entry whose to_succ is in temps or an exit whose
\* from_pred is in temps, and so the primitive find_all has just got from
\* find_first never has a temporary, or a meta-node that ends in one, as entry.
C30_TemporaryHygiene ==
    /\ \A p \in Found(cfg) : Hygienic(cfg, p)
    /\ pc = "insert_needed_node" => Hygienic(cfg, Unwrap(prim))

\* A primitive is found in a graph with a meta-node that ends in a temporary and
\* has one successor: but for the temporary it would be the entry of a sequence.
C30_Witness ==
    /\ pc = "insert_needed_node"
    /\ \E n \in NodeSet(cfg) :
           /\ contains(cfg.temps, to_succ(n))
           /\ from_pred(n) # to_succ(n)
           /\ n \in DOMAIN cfg.succs
           /\ Len(cfg.succs[n]) = 1

\* The variants in the order CFAPrim::find_first tries them.
KindOrder ==
    <<"PreconditionLoop", "PostconditionLoop", "OnewayConditional",
      "OnewayReturnConditional", "TwowayConditional", "StatementSequence">>

\* The primitive of the variant `kind` at the node n, the successors of n taken
\* in their order (A, B) or, `swapped`, in the order (B, A).
PrimAt(kind, g, n, swapped) ==
    LET s == g.succs[n]
        a == IF swapped THEN s[2] ELSE s[1]
        b == IF swapped THEN s[1] ELSE s[2]
    IN  CASE kind = "PostconditionLoop" -> [kind |-> kind, cond |-> n, exit |-> a]
          [] kind = "TwowayConditional" ->
                 [kind |-> kind, cond |-> n, body_a |-> a, body_b |-> b,
                  exit |-> g.succs[a][1]]
          [] kind = "StatementSequence" -> [kind |-> kind, entry |-> n, exit |-> s[1]]
          [] OTHER -> [kind |-> kind, cond |-> n, body |-> a, exit |-> b]

\* The variant `kind` matches at the node n with the successors in that order:
\* the order is one its find_first tries and is_valid accepts the candidate.
VariantMatches(kind, g, n, swapped) ==
    /\ n \in DOMAIN g.succs
    /\ Len(g.succs[n]) = IF kind = "StatementSequence" THEN 1 ELSE 2
    /\ LET s == g.succs[n]
           a == IF swapped THEN s[2] ELSE s[1]
           b == IF swapped THEN s[1] ELSE s[2]
       IN  CASE kind = "PreconditionLoop" -> CFAPreconditionLoop_is_valid(g, n, a, b)
             [] kind = "PostconditionLoop" -> CFAPostconditionLoop_is_valid(g, n, a)
             [] kind = "OnewayConditional" -> CFAOnewayConditional_is_valid(g, n, a, b)
             [] kind = "OnewayReturnConditional" ->
                    CFAOnewayReturnConditional_is_valid(g, n, a, b)
             [] kind = "TwowayConditional" ->
                    /\ ~ swapped
                    /\ a \in DOMAIN g.succs
                    /\ Len(g.succs[a]) = 1
                    /\ CFATwowayConditional_is_valid(g, n, a, b, g.succs[a][1])
             [] kind = "StatementSequence" ->
                    /\ ~ swapped
                    /\ CFAStatementSequence_is_valid(g, n, s[1])

\* p is the match of the k-th variant at the i-th node that comes first: no
\* earlier variant matches anywhere, the variant matches at no earlier node, and
\* the order (B, A) is taken only when (A, B) does not match.
FirstMatch(g, p, k, i, swapped) ==
    /\ VariantMatches(KindOrder[k], g, g.nodes[i], swapped)
    /\ p = PrimAt(KindOrder[k], g, g.nodes[i], swapped)
    /\ \A k1 \in 1..(k - 1), j \in 1..Len(g.nodes), sw \in BOOLEAN :
           ~ VariantMatches(KindOrder[k1], g, g.nodes[j], sw)
    /\ \A j \in 1..(i - 1), sw \in BOOLEAN :
           ~ VariantMatches(KindOrder[k], g, g.nodes[j], sw)
    /\ swapped => ~ VariantMatches(KindOrder[k], g, g.nodes[i], FALSE)

\* C31: in every graph of the reduction, CFAPrim::find_first returns a primitive
\* of a variant only if no variant earlier in the order PreconditionLoop,
\* PostconditionLoop, OnewayConditional, OnewayReturnConditional,
\* TwowayConditional, StatementSequence matches at any node; within the variant
\* it returns the match at the earliest node of cfg.nodes, the successor order
\* (A, B) tried before (B, A); and it returns None only when no variant matches
\* at any node.
C31_FirstMatchOrder ==
    LET found == CFAPrim_find_first(cfg)
    IN  IF IsSome(found)
        THEN \E k \in 1..Len(KindOrder), i \in 1..Len(cfg.nodes), swapped \in BOOLEAN :
                 FirstMatch(cfg, Unwrap(found), k, i, swapped)
        ELSE \A k \in 1..Len(KindOrder), j \in 1..Len(cfg.nodes), sw \in BOOLEAN :
                 ~ VariantMatches(KindOrder[k], cfg, cfg.nodes[j], sw)

\* find_all holds a loop found at the second node or later with the successors
\* of its cond in the order (B, A), while a sequence matches at an earlier node.
C31_Witness ==
    /\ pc = "insert_needed_node"
    /\ Unwrap(prim).kind = "PreconditionLoop"
    /\ Unwrap(prim).body = cfg.succs[Unwrap(prim).cond][2]
    /\ \E i \in 1..Len(cfg.nodes), j \in 1..Len(cfg.nodes) :
           /\ j < i
           /\ cfg.nodes[i] = Unwrap(prim).cond
           /\ VariantMatches("StatementSequence", cfg, cfg.nodes[j], FALSE)

\* The predecessor count of its exit at which a variant needs no temporary.
Threshold(kind) ==
    IF kind \in {"OnewayConditional", "TwowayConditional"} THEN 2 ELSE 1

\* The constituents whose edge to the exit the fix-up of a variant reroutes.
Rerouted(p) ==
    CASE p.kind = "OnewayConditional" -> {p.cond, p.body}
      [] p.kind = "TwowayConditional" -> {p.body_a, p.body_b}
      [] p.kind = "StatementSequence" -> {p.entry}
      [] OTHER -> {p.cond}

\* The edges of a graph as its succs lists and as its preds lists hold them.
SuccEdges(g) ==
    UNION {{<<u, g.succs[u][i]>> : i \in 1..Len(g.succs[u])} : u \in DOMAIN g.succs}
PredEdges(g) ==
    UNION {{<<g.preds[v][i], v>> : i \in 1..Len(g.preds[v])} : v \in DOMAIN g.preds}

\* The predecessors of a node, as a set.
PredSet(g, node) ==
    IF node \in DOMAIN g.preds
    THEN {g.preds[node][i] : i \in 1..Len(g.preds[node])} ELSE {}

\* The edges `edges` with those from the nodes of `from` to `exit` led through
\* the node t.
Through(edges, from, exit, t) ==
    ((edges \ {<<s, exit>> : s \in from}) \cup {<<s, t>> : s \in from})
        \cup {<<t, exit>>}

\* The fix-up made the graph g1 and the primitive p1 of the graph g and the
\* primitive p, create_temporary_node having returned the names `names`.
FixedUp(g, p, g1, p1, names) ==
    IF PredCount(g, p.exit) # Threshold(p.kind)
    THEN /\ Len(names) = 1
         /\ contains(g1.temps, names[1])
         /\ p1 = [p EXCEPT !.exit = IntoNode(names[1])]
         /\ SuccEdges(g1) = Through(SuccEdges(g), Rerouted(p), p.exit, IntoNode(names[1]))
         /\ PredEdges(g1) = Through(PredEdges(g), Rerouted(p), p.exit, IntoNode(names[1]))
         /\ PredSet(g1, p1.exit) = Rerouted(p)
         /\ PredSet(g1, p1.exit) \subseteq Constituents(p1)
    ELSE /\ names = <<>>
         /\ g1 = g
         /\ p1 = p
         /\ PredSet(g1, p1.exit) \subseteq Constituents(p1)

\* C32: every fix-up of find_all creates a temporary exactly when the number of
\* predecessors of the primitive's exit differs from the threshold of the
\* variant (2 for OnewayConditional and TwowayConditional, 1 for the others);
\* it then leads the edges to the exit from cond (both loops and the
\* OnewayReturnConditional), from cond and body (OnewayConditional), from body_a
\* and body_b (TwowayConditional) or from entry (StatementSequence) through the
\* temporary, makes the temporary the exit of the primitive and changes no other
\* edge; afterwards every predecessor of the exit is a constituent.
C32_FixUp ==
    [][(pc = "insert_needed_node" /\ pc' = "merge") =>
           FixedUp(cfg, Unwrap(prim), cfg', Unwrap(prim'),
                   SubSeq(created', Len(created) + 1, Len(created')))]_vars

\* The fix-up of a TwowayConditional whose exit had a third predecessor has led
\* the edges of the two bodies through a temporary, the third edge left alone.
C32_Witness ==
    /\ pc = "merge"
    /\ Unwrap(prim).kind = "TwowayConditional"
    /\ contains(cfg.temps, from_pred(Unwrap(prim).exit))
    /\ PredSet(cfg, Unwrap(prim).exit) = {Unwrap(prim).body_a, Unwrap(prim).body_b}
    /\ \E n \in NodeSet(cfg) \ Constituents(Unwrap(prim)) :
           cfg.succs[Unwrap(prim).exit] = <<n>> /\ Cardinality(PredSet(cfg, n)) = 2

\* The graph g with the two successors of cond in the other order.
SwapSuccs(g, cond) ==
    [g EXCEPT !.succs[cond] = <<g.succs[cond][2], g.succs[cond][1]>>]

\* What TwowayConditional::find_first returns when cond is the only node its
\* loop visits.
TwowayAt(g, cond) == CFATwowayConditional_find_first([g EXCEPT !.nodes = <<cond>>])

\* The nodes with two successors.
TwoSuccs(g) ==
    {n \in NodeSet(g) : n \in DOMAIN g.succs /\ Len(g.succs[n]) = 2}

\* C33: in every graph of the reduction and for every node cond with two
\* successors, TwowayConditional::find_first matches at cond with the successor
\* list [A, B] exactly when it matches at cond with the list [B, A], although
\* it takes the exit from the first successor only; the two matches have the
\* same exit and the bodies exchanged.
C33_TwowaySymmetric ==
    \A cond \in TwoSuccs(cfg) :
        LET ab == TwowayAt(cfg, cond)
            ba == TwowayAt(SwapSuccs(cfg, cond), cond)
        IN  /\ IsSome(ab) <=> IsSome(ba)
            /\ IsSome(ab) =>
                   /\ Unwrap(ab).exit = Unwrap(ba).exit
                   /\ Unwrap(ab).body_a = Unwrap(ba).body_b
                   /\ Unwrap(ab).body_b = Unwrap(ba).body_a

\* A TwowayConditional matches at a node, and with the successors in the other
\* order too, the first body then being the other successor.
C33_Witness ==
    \E cond \in TwoSuccs(cfg) :
        /\ IsSome(TwowayAt(cfg, cond))
        /\ IsSome(TwowayAt(SwapSuccs(cfg, cond), cond))
        /\ Unwrap(TwowayAt(cfg, cond)).body_a = cfg.succs[cond][1]
        /\ Unwrap(TwowayAt(SwapSuccs(cfg, cond), cond)).body_a = cfg.succs[cond][2]

\* The node is a meta-node: it spans more than one block.
IsMeta(node) == from_pred(node) # to_succ(node)

\* The node is the merge result of one of the first n primitives of ps.
MergedBefore(ps, node, n) == \E j \in 1..n : NewNode(ps[j]) = node

\* The list ps is bottom-up: the meta-nodes among the constituents of each
\* primitive are merge results of primitives before it.
BottomUp(ps) ==
    \A i \in 1..Len(ps) :
        \A c \in Constituents(ps[i]) : IsMeta(c) => MergedBefore(ps, c, i - 1)

\* C34: the primitives find_all has recorded are in merge order and bottom-up at
\* every step: each constituent of prims[i] that is a meta-node is the merge
\* result (entry.from_pred, exit.to_succ) of some prims[j], j < i; the entry of
\* a returned bundle is a leaf or the merge result of a recorded primitive; and
\* CFRGroups::new never returns None on a bundle find_all returned.
C34_BottomUp ==
    /\ BottomUp(prims)
    /\ IsSome(prim) => \A c \in Constituents(Unwrap(prim)) :
                           IsMeta(c) => MergedBefore(prims, c, Len(prims))
    /\ IsSome(bundle) =>
           /\ Unwrap(bundle).prims = prims
           /\ BottomUp(Unwrap(bundle).prims)
           /\ \/ ~ IsMeta(Unwrap(bundle).entry)
              \/ MergedBefore(prims, Unwrap(bundle).entry, Len(prims))
    /\ pc = "done" => groups.tag # "None"

\* Recovery is done on a bundle whose entry is a meta-node and whose last
\* primitive has a meta-node merged two primitives or more before it as a
\* constituent.
C34_Witness ==
    /\ pc = "done"
    /\ groups.tag = "Some"
    /\ IsMeta(Unwrap(bundle).entry)
    /\ Len(prims) >= 3
    /\ \E c \in Constituents(prims[Len(prims)]) :
           IsMeta(c) /\ MergedBefore(prims, c, Len(prims) - 2)

\* The index of the first primitive of ps with the identity of the node `at`,
\* 0 when there is none: the search at the head of handle.
FindIndex(ps, at) ==
    IF IsSome(FindPrim(ps, at, 1))
    THEN CHOOSE i \in 1..Len(ps) :
             /\ NewNode(ps[i]) = at
             /\ \A j \in 1..(i - 1) : NewNode(ps[j]) # at
    ELSE 0

\* The primitive whose merge produced the node `at`, a node of the graph before
\* the merge number i: one of the first i - 1 primitives, or none when `at` is
\* a block or a temporary.
ProducedBy(ps, at, i) ==
    IF MergedBefore(ps, at, i - 1)
    THEN Some(ps[CHOOSE j \in 1..(i - 1) : NewNode(ps[j]) = at])
    ELSE None

\* The calls of handle from handle(at) on, each node with the number of the
\* merge it was a node before (Len(prims) + 1 for the entry of the bundle); a
\* call that finds the primitive whose constituent its node is, is not
\* descended into.
RECURSIVE HandleCalls(_, _, _)
HandleCalls(ps, at, i) ==
    LET k == FindIndex(ps, at)
    IN  IF k = 0 \/ k >= i THEN {<<at, i>>}
        ELSE {<<at, i>>} \cup UNION {HandleCalls(ps, c, k) : c \in Constituents(ps[k])}

\* No two nodes of the graph share a from_pred or share a to_succ.
NoSharedEnds(g) ==
    \A m \in NodeSet(g), n \in NodeSet(g) :
        (from_pred(m) = from_pred(n) \/ to_succ(m) = to_succ(n)) => m = n

\* C35: the identity of a meta-node is unambiguous: no two recorded primitives
\* have the same pair (entry.from_pred, exit.to_succ); at every step of the
\* reduction no two nodes of the graph share a from_pred or a to_succ; and for
\* every node handle is called with on a returned bundle, its first-match search
\* selects the primitive whose merge produced that node, and none for a block
\* or a temporary.
C35_UnambiguousIdentity ==
    /\ \A i \in 1..Len(prims), j \in 1..Len(prims) :
           NewNode(prims[i]) = NewNode(prims[j]) => i = j
    /\ pc \in {"find_all", "insert_needed_node", "merge"} => NoSharedEnds(cfg)
    /\ IsSome(bundle) =>
           \A call \in HandleCalls(prims, Unwrap(bundle).entry, Len(prims) + 1) :
               FindPrim(prims, call[1], 1) = ProducedBy(prims, call[1], call[2])

\* The variants whose group has a cond popped from the groups of handle(cond).
Conditionals == {"OnewayConditional", "OnewayReturnConditional", "TwowayConditional"}

\* The groups `whole` are those of `cond` but the last, then one group of the
\* kind `kind` whose cond is that last group, then those of `exit`.
PoppedInto(whole, cond, exit, kind) ==
    /\ cond # <<>>
    /\ Len(whole) = Len(cond) + Len(exit)
    /\ SubSeq(whole, 1, Len(cond) - 1) = Front(cond)
    /\ whole[Len(cond)].kind = kind
    /\ whole[Len(cond)].cond = <<Last(cond)>>
    /\ SubSeq(whole, Len(cond) + 1, Len(whole)) = exit

\* C36: for every OnewayConditional, OnewayReturnConditional or TwowayConditional
\* of a returned bundle that handle matches at its meta-node, the groups handle
\* returns for the node are the groups of handle(cond) but the last, then one
\* group of the variant whose cond holds exactly that last group, then the
\* groups of handle(exit); handle(cond) is never empty on such a bundle, and the
\* pop never fails.
C36_ConditionalGroups ==
    /\ IsSome(bundle) =>
           \A i \in 1..Len(prims) :
               (/\ prims[i].kind \in Conditionals
                /\ FindPrim(prims, NewNode(prims[i]), 1) = Some(prims[i])) =>
                   LET b == Unwrap(bundle)
                       whole == handle(b, NewNode(prims[i]), <<>>)
                       cond == handle(b, prims[i].cond, <<>>)
                       exit == handle(b, prims[i].exit, <<>>)
                   IN  /\ cond.tag = "Some" => cond.groups # <<>>
                       /\ whole.tag = "Some" =>
                              PoppedInto(whole.groups, cond.groups, exit.groups,
                                         prims[i].kind)
    /\ pc = "done" => groups.tag # "Panic"

\* The nodes of the graph with three successors or more.
Multiway(g) == {n \in DOMAIN g.succs : Len(g.succs[n]) >= 3}

\* C37: a graph with a node of three or more distinct successors, as Switch and
\* IndirectBr make them, is never reduced: at every step of find_all the graph
\* still has a node with three successors or more, no merge having removed the
\* surplus ones, and find_all returns no bundle.
C37_MultiwayIrreducible ==
    (pc # "new" /\ Multiway(Original) # {}) =>
        /\ pc \in {"find_all", "insert_needed_node", "merge"} => Multiway(cfg) # {}
        /\ ~ IsSome(bundle)
====
